---- MODULE Spec2Model ----
(***************************************************************************)
(* Model of the HTTP request engine of terraform-provider-http-client:     *)
(* getTLSVersion, configureHTTPTransport and ExecuteRequest.               *)
(*                                                                         *)
(* Strings whose characters the code inspects (tls_min_version and         *)
(* http_version go through strings.ToUpper) are sequences of one-character *)
(* strings; all other strings are opaque.  An absent pointer/value (Go     *)
(* nil) is the record Nil.                                                 *)
(***************************************************************************)
EXTENDS Integers, Sequences, FiniteSets, TLC

VARIABLES
    pc,         \* position of the ExecuteRequest call
    cfg,        \* the RequestConfig of the call
    tlsConfig,  \* *tls.Config under construction
    req,        \* *http.Request built by http.NewRequestWithContext
    client,     \* *http.Client (timeout, transport, redirect policy)
    wire,       \* requests put on the network so far, in order
    answers,    \* responses the server gave to them, in order
    resp,       \* *http.Response handed back by client.Do
    respBody,   \* bytes read by io.ReadAll
    result,     \* first return value of ExecuteRequest
    err,        \* second return value of ExecuteRequest
    clock,      \* time units gone by since client.Do was called
    caller,     \* the front end (data source Read, ephemeral Open) that made the call
    sched,      \* with two calls running: which one has the processor, and the
                \* local variables of the one that waits
    fnIn,       \* arguments of a direct call of a helper function
    fnOut       \* what that direct call returned

callVars == <<pc, cfg, tlsConfig, req, client, wire, answers, resp, respBody, result, err,
              clock, caller>>
\* the variables no step of a single call touches
fnVars == <<fnIn, fnOut, sched>>
vars == <<pc, cfg, tlsConfig, req, client, wire, answers, resp, respBody, result, err,
          clock, caller, sched, fnIn, fnOut>>

Nil == [nil |-> TRUE]

(***************************************************************************)
(* Bounds of the model.                                                    *)
(***************************************************************************)
\* largest max_redirects a configuration carries
MaxRedirectsBound == 2
\* longest whitespace padding put around a version name
MaxPad == 1
\* longest expected_status_codes list
MaxExpected == 2
\* most pieces in a CA bundle
MaxPEMBlocks == 2
\* most entries in a request_headers map
MaxHeaders == 2
\* longest time the server takes to answer a request or to deliver a body
MaxDelay == 2

(***************************************************************************)
(* strings.ToUpper over the characters that occur in the model.            *)
(***************************************************************************)
LowerChars == <<"h", "l", "p", "s", "t">>
UpperChars == <<"H", "L", "P", "S", "T">>

ToUpperChar(c) ==
    IF \E i \in 1..Len(LowerChars) : LowerChars[i] = c
    THEN UpperChars[CHOOSE i \in 1..Len(LowerChars) : LowerChars[i] = c]
    ELSE c

ToLowerChar(c) ==
    IF \E i \in 1..Len(UpperChars) : UpperChars[i] = c
    THEN LowerChars[CHOOSE i \in 1..Len(UpperChars) : UpperChars[i] = c]
    ELSE c

ToUpper(s) == [i \in 1..Len(s) |-> ToUpperChar(s[i])]

\* strings.TrimSpace (used only to state what trimming would give)
RECURSIVE TrimLeft(_)
TrimLeft(s) == IF s # <<>> /\ Head(s) = " " THEN TrimLeft(Tail(s)) ELSE s

RECURSIVE TrimRight(_)
TrimRight(s) ==
    IF s # <<>> /\ s[Len(s)] = " " THEN TrimRight(SubSeq(s, 1, Len(s) - 1)) ELSE s

TrimSpace(s) == TrimRight(TrimLeft(s))

(***************************************************************************)
(* crypto/tls protocol version numbers.                                    *)
(***************************************************************************)
VersionTLS10 == 769
VersionTLS11 == 770
VersionTLS12 == 771
VersionTLS13 == 772

S_TLS10 == <<"T", "L", "S", "1", "0">>
S_TLS11 == <<"T", "L", "S", "1", "1">>
S_TLS12 == <<"T", "L", "S", "1", "2">>
S_TLS13 == <<"T", "L", "S", "1", "3">>

S_HTTP11 == <<"H", "T", "T", "P", "1", ".", "1">>
S_HTTP11s == <<"H", "T", "T", "P", "/", "1", ".", "1">>
S_HTTP2 == <<"H", "T", "T", "P", "2">>
S_HTTP2s == <<"H", "T", "T", "P", "/", "2">>
S_HTTP3 == <<"H", "T", "T", "P", "3">>
S_HTTP3s == <<"H", "T", "T", "P", "/", "3">>

(***************************************************************************)
(* getTLSVersion: (uint16, error).                                         *)
(***************************************************************************)
ErrInvalidTLSVersion(version) ==
    [kind |-> "InvalidTLSVersion",
     text |-> "invalid TLS version: %s (valid values: TLS10, TLS11, TLS12, TLS13)",
     arg |-> version,
     valid |-> <<S_TLS10, S_TLS11, S_TLS12, S_TLS13>>]

\* getTLSVersion, had it trimmed its argument before the switch
getTLSVersion_Trimmed(version) ==
    LET u == ToUpper(TrimSpace(version)) IN
    IF u = S_TLS10 THEN [v |-> VersionTLS10, err |-> Nil]
    ELSE IF u = S_TLS11 THEN [v |-> VersionTLS11, err |-> Nil]
    ELSE IF u = S_TLS12 THEN [v |-> VersionTLS12, err |-> Nil]
    ELSE IF u = S_TLS13 THEN [v |-> VersionTLS13, err |-> Nil]
    ELSE [v |-> 0, err |-> ErrInvalidTLSVersion(version)]

getTLSVersion(version) ==
    LET u == ToUpper(version) IN
    IF u = S_TLS10 THEN [v |-> VersionTLS10, err |-> Nil]
    ELSE IF u = S_TLS11 THEN [v |-> VersionTLS11, err |-> Nil]
    ELSE IF u = S_TLS12 THEN [v |-> VersionTLS12, err |-> Nil]
    ELSE IF u = S_TLS13 THEN [v |-> VersionTLS13, err |-> Nil]
    ELSE [v |-> 0, err |-> ErrInvalidTLSVersion(version)]

(***************************************************************************)
(* configureHTTPTransport: (http.RoundTripper, error).                     *)
(***************************************************************************)
ErrHTTP3RequiresTLS13 ==
    [kind |-> "ProtocolPrerequisiteUnmet",
     text |-> "HTTP/3 requires TLS 1.3"]

ErrInvalidHTTPVersion(httpVersion) ==
    [kind |-> "InvalidHTTPVersion",
     text |-> "invalid HTTP version: %s (valid values: HTTP1.1, HTTP2)",
     arg |-> httpVersion,
     valid |-> <<S_HTTP11, S_HTTP2>>]

HTTPTransport(tlsCfg, forceHTTP2, timeout) ==
    [type |-> "http.Transport",
     TLSClientConfig |-> tlsCfg,
     ForceAttemptHTTP2 |-> forceHTTP2,
     DialTimeout |-> timeout,
     TLSHandshakeTimeout |-> timeout,
     ResponseHeaderTimeout |-> timeout]

HTTP3Transport(tlsCfg) ==
    [type |-> "http3.Transport",
     TLSClientConfig |-> tlsCfg]

\* configureHTTPTransport without the TLS 1.3 test of its HTTP/3 case
configureHTTPTransport_NoTLS13Check(httpVersion, tlsCfg, timeout) ==
    LET version == ToUpper(httpVersion) IN
    IF version \in {<<>>, S_HTTP11, S_HTTP11s}
    THEN [t |-> HTTPTransport(tlsCfg, FALSE, timeout), err |-> Nil]
    ELSE IF version \in {S_HTTP2, S_HTTP2s}
    THEN [t |-> HTTPTransport(tlsCfg, TRUE, timeout), err |-> Nil]
    ELSE IF version \in {S_HTTP3, S_HTTP3s}
    THEN [t |-> HTTP3Transport(tlsCfg), err |-> Nil]
    ELSE [t |-> Nil, err |-> ErrInvalidHTTPVersion(httpVersion)]

\* configureHTTPTransport switching on httpVersion itself, not its upper case
configureHTTPTransport_CaseSensitive(httpVersion, tlsCfg, timeout) ==
    LET version == httpVersion IN
    IF version \in {<<>>, S_HTTP11, S_HTTP11s}
    THEN [t |-> HTTPTransport(tlsCfg, FALSE, timeout), err |-> Nil]
    ELSE IF version \in {S_HTTP2, S_HTTP2s}
    THEN [t |-> HTTPTransport(tlsCfg, TRUE, timeout), err |-> Nil]
    ELSE IF version \in {S_HTTP3, S_HTTP3s}
    THEN IF tlsCfg.MinVersion < VersionTLS13
         THEN [t |-> Nil, err |-> ErrHTTP3RequiresTLS13]
         ELSE [t |-> HTTP3Transport(tlsCfg), err |-> Nil]
    ELSE [t |-> Nil, err |-> ErrInvalidHTTPVersion(httpVersion)]

configureHTTPTransport(httpVersion, tlsCfg, timeout) ==
    LET version == ToUpper(httpVersion) IN
    IF version \in {<<>>, S_HTTP11, S_HTTP11s}
    THEN [t |-> HTTPTransport(tlsCfg, FALSE, timeout), err |-> Nil]
    ELSE IF version \in {S_HTTP2, S_HTTP2s}
    THEN [t |-> HTTPTransport(tlsCfg, TRUE, timeout), err |-> Nil]
    ELSE IF version \in {S_HTTP3, S_HTTP3s}
    THEN IF tlsCfg.MinVersion < VersionTLS13
         THEN [t |-> Nil, err |-> ErrHTTP3RequiresTLS13]
         ELSE [t |-> HTTP3Transport(tlsCfg), err |-> Nil]
    ELSE [t |-> Nil, err |-> ErrInvalidHTTPVersion(httpVersion)]

(***************************************************************************)
(* PEM material.  A PEM text is the sequence of its pieces: a piece that   *)
(* is not a well-formed PEM block has decodes = FALSE; a block has a Type, *)
(* DER bytes that parse or not, and the key pair it belongs to.  The empty *)
(* string is the empty sequence.                                           *)
(***************************************************************************)
Junk == [decodes |-> FALSE, Type |-> "", parses |-> FALSE, key |-> ""]
CertBlock(k) == [decodes |-> TRUE, Type |-> "CERTIFICATE", parses |-> TRUE, key |-> k]
BadCertBlock == [decodes |-> TRUE, Type |-> "CERTIFICATE", parses |-> FALSE, key |-> ""]
KeyBlock(k) == [decodes |-> TRUE, Type |-> "PRIVATE KEY", parses |-> TRUE, key |-> k]

\* encoding/pem.Decode: the next well-formed block and what follows it, or
\* no block and the input unchanged
RECURSIVE pemDecode(_)
pemDecode(data) ==
    IF data = <<>> THEN [block |-> Nil, rest |-> data]
    ELSE IF Head(data).decodes THEN [block |-> Head(data), rest |-> Tail(data)]
    ELSE LET d == pemDecode(Tail(data)) IN
         IF d.block = Nil THEN [block |-> Nil, rest |-> data] ELSE d

RECURSIVE pemBlocks(_)
pemBlocks(data) ==
    LET d == pemDecode(data) IN
    IF d.block = Nil THEN <<>> ELSE <<d.block>> \o pemBlocks(d.rest)

\* crypto/tls.X509KeyPair: the first CERTIFICATE block and the first private
\* key block must exist, parse and belong to the same key pair
X509KeyPair(certPEM, keyPEM) ==
    LET certs == SelectSeq(pemBlocks(certPEM), LAMBDA b : b.Type = "CERTIFICATE")
        keys == SelectSeq(pemBlocks(keyPEM), LAMBDA b : b.Type = "PRIVATE KEY")
    IN  IF certs = <<>> \/ keys = <<>> THEN [cert |-> Nil, ok |-> FALSE]
        ELSE IF ~certs[1].parses \/ ~keys[1].parses THEN [cert |-> Nil, ok |-> FALSE]
        ELSE IF certs[1].key # keys[1].key THEN [cert |-> Nil, ok |-> FALSE]
        ELSE [cert |-> [leaf |-> certs[1].key], ok |-> TRUE]

ErrClientCert ==
    [kind |-> "CertParseFailure", text |-> "failed to parse client certificate: %w"]

ErrCACert ==
    [kind |-> "CAParseFailure", text |-> "failed to parse CA certificate: %w"]

\* x509.CertPool.AddCert: a certificate already in the pool is not added again
AddCert(pool, cert) ==
    IF \E i \in DOMAIN pool : pool[i] = cert THEN pool ELSE Append(pool, cert)

\* clientCertificates going on without a certificate when the pair is bad
clientCertificates_IgnoreError(certPEM, keyPEM) ==
    IF certPEM # <<>> /\ keyPEM # <<>>
    THEN LET kp == X509KeyPair(certPEM, keyPEM) IN
         IF ~kp.ok
         THEN [certs |-> <<>>, err |-> Nil]
         ELSE [certs |-> <<kp.cert>>, err |-> Nil]
    ELSE [certs |-> <<>>, err |-> Nil]

\* clientCertificates loading the pair as soon as one of the two is given
clientCertificates_Either(certPEM, keyPEM) ==
    IF certPEM # <<>> \/ keyPEM # <<>>
    THEN LET kp == X509KeyPair(certPEM, keyPEM) IN
         IF ~kp.ok
         THEN [certs |-> <<>>, err |-> ErrClientCert]
         ELSE [certs |-> <<kp.cert>>, err |-> Nil]
    ELSE [certs |-> <<>>, err |-> Nil]

\* the client certificate block of ExecuteRequest: (Certificates, error)
clientCertificates(certPEM, keyPEM) ==
    IF certPEM # <<>> /\ keyPEM # <<>>
    THEN LET kp == X509KeyPair(certPEM, keyPEM) IN
         IF ~kp.ok
         THEN [certs |-> <<>>, err |-> ErrClientCert]
         ELSE [certs |-> <<kp.cert>>, err |-> Nil]
    ELSE [certs |-> <<>>, err |-> Nil]

RECURSIVE loadCACerts(_, _)
\* loadCACerts stopping after the first PEM block
loadCACerts_FirstOnly(rest, pool) ==
    LET d == pemDecode(rest) IN
    IF d.block = Nil THEN [pool |-> pool, err |-> Nil]
    ELSE IF d.block.Type = "CERTIFICATE"
         THEN IF ~d.block.parses
              THEN [pool |-> Nil, err |-> ErrCACert]
              ELSE [pool |-> AddCert(pool, d.block.key), err |-> Nil]
         ELSE [pool |-> pool, err |-> Nil]

\* the CA loop of ExecuteRequest: (pool, error)
loadCACerts(rest, pool) ==
    LET d == pemDecode(rest) IN
    IF d.block = Nil THEN [pool |-> pool, err |-> Nil]
    ELSE IF d.block.Type = "CERTIFICATE"
         THEN IF ~d.block.parses
              THEN [pool |-> Nil, err |-> ErrCACert]
              ELSE loadCACerts(d.rest, AddCert(pool, d.block.key))
         ELSE loadCACerts(d.rest, pool)

(***************************************************************************)
(* The outgoing request.                                                   *)
(***************************************************************************)
ValidMethods == {"GET", "POST"}
WellFormedURLs == {"http://srv/"}

ErrRequestBuild ==
    [kind |-> "RequestBuildFailure", text |-> "net/http: invalid method or URL"]

\* http.NewRequestWithContext: (request, error)
NewRequestWithContext(method, url, body) ==
    IF method # "" /\ method \notin ValidMethods
    THEN [req |-> Nil, err |-> ErrRequestBuild]
    ELSE IF url \notin WellFormedURLs
    THEN [req |-> Nil, err |-> ErrRequestBuild]
    ELSE [req |-> [Method |-> IF method = "" THEN "GET" ELSE method,
                   URL |-> url,
                   Header |-> <<>>,
                   Body |-> body],
          err |-> Nil]

\* textproto.CanonicalMIMEHeaderKey on the header names of the model
CanonicalHeaderKey(k) ==
    IF k \in {"content-type", "Content-Type"} THEN "Content-Type"
    ELSE IF k \in {"authorization", "Authorization"} THEN "Authorization"
    ELSE k

\* http.Header.Set
HeaderSet(h, k, v) ==
    [x \in DOMAIN h \cup {CanonicalHeaderKey(k)} |->
        IF x = CanonicalHeaderKey(k) THEN v ELSE h[x]]

RECURSIVE setHeaders(_, _, _)
\* setHeaders leaving the loop after the first entry
setHeaders_FirstOnly(h, headers, order) ==
    IF order = <<>> THEN h
    ELSE HeaderSet(h, Head(order), headers[Head(order)])

\* for k, v := range cfg.Headers { req.Header.Set(k, v) }, the map visited
\* in the order given
setHeaders(h, headers, order) ==
    IF order = <<>> THEN h
    ELSE setHeaders(HeaderSet(h, Head(order), headers[Head(order)]), headers, Tail(order))

\* the orders in which a range over a Go map may visit its keys
KeyOrders(m) ==
    {o \in [1..Cardinality(DOMAIN m) -> DOMAIN m] :
        \A i, j \in DOMAIN o : i # j => o[i] # o[j]}

\* http.Request.SetBasicAuth
SetBasicAuth(h, username, password) ==
    HeaderSet(h, "Authorization", "Basic " \o username \o ":" \o password)

\* applyBasicAuth asking for a password too
applyBasicAuth_NeedsPassword(h, username, password) ==
    IF username # "" /\ password # "" THEN SetBasicAuth(h, username, password) ELSE h

\* applyBasicAuth without its test of the username
applyBasicAuth_Always(h, username, password) ==
    SetBasicAuth(h, username, password)

\* the 'Basic auth' block of ExecuteRequest
applyBasicAuth(h, username, password) ==
    IF username # "" THEN SetBasicAuth(h, username, password) ELSE h

(***************************************************************************)
(* The client, its redirect policy and the server.                         *)
(***************************************************************************)
\* the header net/http adds to a request that does not set it
DefaultUserAgent == "Go-http-client/1.1"

\* the header of a request as client.Do writes it on the connection
WireHeader(h) ==
    [k \in DOMAIN h \cup {"User-Agent"} |->
        IF k \in DOMAIN h THEN h[k] ELSE DefaultUserAgent]

RedirectCodes == {302}
StatusCodes == {200, 302, 404, 500}
\* the server stops redirecting after this many redirect responses
MaxChain == MaxRedirectsBound + 1

IsRedirect(r) == r.StatusCode \in RedirectCodes /\ "Location" \in DOMAIN r.Header

\* RedirectPolicy ignoring followRedirects
RedirectPolicy_AlwaysFollow(followRedirects, maxRedirects, sent) ==
    IF sent - 1 >= maxRedirects THEN "too_many_redirects" ELSE "follow"

\* RedirectPolicy allowing one hop more than maxRedirects
RedirectPolicy_OneHopMore(followRedirects, maxRedirects, sent) ==
    IF ~followRedirects THEN "use_last_response"
    ELSE IF sent - 1 > maxRedirects THEN "too_many_redirects"
    ELSE "follow"

\* RedirectPolicy giving up one hop before maxRedirects
RedirectPolicy_OneHopShort(followRedirects, maxRedirects, sent) ==
    IF ~followRedirects THEN "use_last_response"
    ELSE IF sent >= maxRedirects THEN "too_many_redirects"
    ELSE "follow"

\* what the client does with a redirect response after `sent` requests:
\* hand it back, follow it, or give up
RedirectPolicy(followRedirects, maxRedirects, sent) ==
    IF ~followRedirects THEN "use_last_response"
    ELSE IF sent - 1 >= maxRedirects THEN "too_many_redirects"
    ELSE "follow"

ErrTooManyRedirects(n) ==
    [kind |-> "TooManyRedirects", text |-> "stopped after %d redirects", arg |-> n]

ErrTransport(timedOut) ==
    [kind |-> "TransportError", text |-> "client.Do failed", timeout |-> timedOut]

ErrResponseRead ==
    [kind |-> "ResponseReadFailure", text |-> "io.ReadAll failed"]

ErrResponseReadTimeout ==
    [kind |-> "ResponseReadFailure", text |-> "io.ReadAll failed", timeout |-> TRUE]

\* NewClient leaving the timeout of the client unset
NewClient_NoTimeout(timeout, transport) == [Timeout |-> 0, Transport |-> transport]

\* the http.Client of ExecuteRequest
NewClient(timeout, transport) == [Timeout |-> timeout, Transport |-> transport]

\* http.Client.Timeout: the deadline of the whole exchange, body read
\* included; zero means no deadline
WithinDeadline(timeout, elapsed) == timeout = 0 \/ elapsed < timeout

\* the response of the server to the request for `target` (0 is cfg.URL,
\* i is the Location of the i-th redirect response)
Response(status, target) ==
    [StatusCode |-> status,
     Header |-> [n \in (IF status \in RedirectCodes THEN {"Location"} ELSE {})
                        \cup {"Via", "Server", "Set-Cookie"} |->
                    IF n = "Location" THEN <<"/hop">>
                    ELSE IF n = "Via" THEN <<"a", "b">>
                    ELSE IF n = "Server" THEN <<"s">>
                    ELSE <<"x", "y", "z">>],
     Body |-> <<"body", status, target>>,
     target |-> target]

ServerResponses(target) ==
    {Response(s, target) : s \in IF target < MaxChain THEN StatusCodes
                                 ELSE StatusCodes \ RedirectCodes}

(***************************************************************************)
(* The status check and the normalised result.                             *)
(***************************************************************************)
ErrUnexpectedStatus(code) ==
    [kind |-> "UnexpectedStatusCode",
     text |-> "unexpected HTTP status code %d",
     arg |-> code]

\* checkStatus comparing the status with the first expected code only
checkStatus_FirstOnly(failOnHTTPError, expectedStatusCodes, statusCode) ==
    IF failOnHTTPError
    THEN LET valid == \E i \in 1..Len(expectedStatusCodes) :
                          i = 1 /\ expectedStatusCodes[i] = statusCode
         IN  IF ~valid /\ Len(expectedStatusCodes) > 0
             THEN ErrUnexpectedStatus(statusCode)
             ELSE Nil
    ELSE Nil

\* checkStatus without the test for an empty list
checkStatus_NoLenGuard(failOnHTTPError, expectedStatusCodes, statusCode) ==
    IF failOnHTTPError
    THEN LET valid == \E i \in 1..Len(expectedStatusCodes) :
                          expectedStatusCodes[i] = statusCode
         IN  IF ~valid
             THEN ErrUnexpectedStatus(statusCode)
             ELSE Nil
    ELSE Nil

\* the 'Check expected status codes' block: the error it returns, or Nil
checkStatus(failOnHTTPError, expectedStatusCodes, statusCode) ==
    IF failOnHTTPError
    THEN LET valid == \E i \in 1..Len(expectedStatusCodes) :
                          expectedStatusCodes[i] = statusCode
         IN  IF ~valid /\ Len(expectedStatusCodes) > 0
             THEN ErrUnexpectedStatus(statusCode)
             ELSE Nil
    ELSE Nil

\* strings.Join(v, ", ")
RECURSIVE Join(_)
Join(v) ==
    IF v = <<>> THEN ""
    ELSE IF Len(v) = 1 THEN v[1]
    ELSE v[1] \o ", " \o Join(Tail(v))

\* RequestResult keeping the first value of every header only
RequestResult_FirstValue(r, body) ==
    [ResponseCode |-> r.StatusCode,
     ResponseHeaders |-> [k \in DOMAIN r.Header |-> r.Header[k][1]],
     ResponseBody |-> body]

\* the 'Parse headers' block and the returned RequestResult
RequestResult(r, body) ==
    [ResponseCode |-> r.StatusCode,
     ResponseHeaders |-> [k \in DOMAIN r.Header |-> Join(r.Header[k])],
     ResponseBody |-> body]

\* a failing return that hands back an empty RequestResult with the error
ReturnError_Partial(e) ==
    [result |-> [ResponseCode |-> 0, ResponseHeaders |-> <<>>, ResponseBody |-> <<>>],
     err |-> e]

\* what a failing return statement of ExecuteRequest hands back
ReturnError(e) == [result |-> Nil, err |-> e]

\* what the final return statement of ExecuteRequest hands back
ReturnResult(r, body) == [result |-> RequestResult(r, body), err |-> Nil]

(***************************************************************************)
(* Inputs.                                                                 *)
(***************************************************************************)
Spaces(n) == [i \in 1..n |-> " "]

\* s with any of its letters in lower case
CaseVariants(s) ==
    {[i \in 1..Len(s) |-> IF i \in m THEN ToLowerChar(s[i]) ELSE s[i]] :
        m \in SUBSET {i \in 1..Len(s) : ToLowerChar(s[i]) # s[i]}}

\* s with up to MaxPad spaces on either side
Padded(s) == {Spaces(a) \o s \o Spaces(b) : a, b \in 0..MaxPad}

TLSBases ==
    {<<>>, S_TLS10, S_TLS11, S_TLS12, S_TLS13,
     <<"T", "L", "S", "1", "4">>, <<"T", "L", "S", "1">>, <<"S", "S", "L", "3">>,
     <<"T", "L", "S", "1", ".", "2">>}

HTTPBases ==
    {<<>>, S_HTTP11, S_HTTP11s, S_HTTP2, S_HTTP2s, S_HTTP3, S_HTTP3s,
     <<"H", "T", "T", "P", "4">>, <<"H", "T", "T", "P", "/", "1", ".", "0">>,
     <<"H", "T", "T", "P">>, <<"H", "2">>}

\* the strings a helper function is called with directly
TLSNames == UNION {Padded(v) : v \in UNION {CaseVariants(b) : b \in TLSBases}}
HTTPNames == UNION {Padded(v) : v \in UNION {CaseVariants(b) : b \in HTTPBases}}

TLSFloors == {VersionTLS10, VersionTLS11, VersionTLS12, VersionTLS13}
Timeouts == {5}

\* the tls_min_version and http_version values of the calls of ExecuteRequest
CallTLSVersions ==
    {<<>>, S_TLS10, S_TLS11, <<"t", "l", "s", "1", "2">>, S_TLS13,
     <<"T", "l", "S", "1", "3">>, <<"T", "L", "S", "1", "4">>}
     \cup {Spaces(MaxPad) \o S_TLS13}

CallHTTPVersions ==
    {<<>>, <<"h", "t", "t", "p", "/", "1", ".", "1">>, S_HTTP2, S_HTTP3,
     <<"H", "t", "t", "P", "/", "3">>, <<"H", "T", "T", "P", "4">>}
     \cup {Spaces(MaxPad) \o S_HTTP2, S_HTTP3s \o Spaces(MaxPad)}

\* expected_status_codes: the lists of at most MaxExpected distinct codes
ExpectedLists ==
    {l \in UNION {[1..n -> StatusCodes] : n \in 0..MaxExpected} :
        \A i, j \in DOMAIN l : i < j => l[i] < l[j]}

\* client certificate and key texts
ClientPairs ==
    {<< <<>>, <<>> >>,
     << <<CertBlock("k1")>>, <<KeyBlock("k2")>> >>}

CABundles == {<<>>, <<BadCertBlock>>}

\* the calls that vary the TLS floor, the protocol, the URL, the status
\* expectation and the redirect settings
CoreConfigs ==
    {[URL |-> u, Method |-> "GET", Headers |-> <<>>, Body |-> "",
      Username |-> "", Password |-> "",
      Timeout |-> t, Insecure |-> FALSE,
      TLSMinVersion |-> tv,
      ClientCertPEM |-> cp[1], ClientKeyPEM |-> cp[2], CACertPEM |-> ca,
      HTTPVersion |-> hv,
      ExpectedStatusCodes |-> ex, FailOnHTTPError |-> f,
      FollowRedirects |-> fr, MaxRedirects |-> mr] :
        u \in WellFormedURLs \cup {"://bad"}, t \in Timeouts,
        tv \in CallTLSVersions, cp \in ClientPairs, ca \in CABundles,
        hv \in CallHTTPVersions, ex \in ExpectedLists, f \in BOOLEAN,
        fr \in BOOLEAN, mr \in 0..MaxRedirectsBound}

\* a plain GET of a well-formed URL
BaseConfig ==
    [URL |-> "http://srv/", Method |-> "GET", Headers |-> <<>>, Body |-> "",
     Username |-> "", Password |-> "",
     Timeout |-> 5, Insecure |-> FALSE,
     TLSMinVersion |-> <<>>,
     ClientCertPEM |-> <<>>, ClientKeyPEM |-> <<>>, CACertPEM |-> <<>>,
     HTTPVersion |-> <<>>,
     ExpectedStatusCodes |-> <<>>, FailOnHTTPError |-> FALSE,
     FollowRedirects |-> FALSE, MaxRedirects |-> 0]

\* PEM texts of at most MaxPEMBlocks pieces
PEMPieces == {Junk, CertBlock("k1"), CertBlock("k2"), BadCertBlock, KeyBlock("k1")}
PEMTexts == UNION {[1..n -> PEMPieces] : n \in 0..MaxPEMBlocks}

ClientCertTexts ==
    {<<>>, <<CertBlock("k1")>>, <<Junk>>, <<BadCertBlock>>, <<KeyBlock("k1")>>,
     <<CertBlock("k1"), CertBlock("k2")>>, <<Junk, CertBlock("k1")>>}

ClientKeyTexts ==
    {<<>>, <<KeyBlock("k1")>>, <<KeyBlock("k2")>>, <<Junk>>, <<CertBlock("k1")>>}

\* the calls that vary the certificate material
MaterialConfigs ==
    {[BaseConfig EXCEPT !.ClientCertPEM = c, !.ClientKeyPEM = k,
                        !.TLSMinVersion = tv, !.HTTPVersion = hv] :
        c \in ClientCertTexts, k \in ClientKeyTexts,
        tv \in {<<>>, <<"T", "L", "S", "1", "4">>}, hv \in {<<>>, S_HTTP3}}
    \cup
    {[BaseConfig EXCEPT !.CACertPEM = ca, !.ClientCertPEM = cp[1],
                        !.ClientKeyPEM = cp[2], !.Insecure = i] :
        ca \in PEMTexts, cp \in ClientPairs, i \in BOOLEAN}

\* request_headers maps of at most MaxHeaders entries
HeaderKeys == {"Content-Type", "content-type", "Authorization", "User-Agent"}
HeaderValues == {"v1", "v2"}
HeaderMaps ==
    UNION {[ks -> HeaderValues] :
              ks \in {x \in SUBSET HeaderKeys : Cardinality(x) <= MaxHeaders}}

\* the calls that vary the request: method, body, headers and credentials
RequestConfigs ==
    {[BaseConfig EXCEPT !.Method = m, !.Body = b, !.Headers = h,
                        !.Username = u, !.Password = pw,
                        !.FollowRedirects = fr, !.MaxRedirects = 1] :
        m \in ValidMethods \cup {"", "BAD METHOD"}, b \in {"", "payload"},
        h \in HeaderMaps, u \in {"", "user"}, pw \in {"", "pass"},
        fr \in BOOLEAN}

\* the calls that vary the timeout (0: RequestConfig.Timeout left unset)
TimeoutConfigs ==
    {[BaseConfig EXCEPT !.Timeout = t, !.FollowRedirects = fr, !.MaxRedirects = 1,
                        !.HTTPVersion = hv] :
        t \in 0..MaxDelay + 1, fr \in BOOLEAN, hv \in {<<>>, S_HTTP2}}

Configs == CoreConfigs \cup MaterialConfigs \cup RequestConfigs \cup TimeoutConfigs

(***************************************************************************)
(* ExecuteRequest, one action per step of its body.                        *)
(***************************************************************************)
Init ==
    /\ pc = "idle"
    /\ cfg = Nil
    /\ tlsConfig = Nil
    /\ req = Nil
    /\ client = Nil
    /\ wire = <<>>
    /\ answers = <<>>
    /\ resp = Nil
    /\ respBody = Nil
    /\ result = Nil
    /\ err = Nil
    /\ clock = 0
    /\ caller = Nil
    /\ sched = Nil
    /\ fnIn = Nil
    /\ fnOut = Nil

\* StepAfter with the transport and the client made before the request
StepAfter_ClientBeforeRequest(p) ==
    CASE p = "tls" -> "clientcert"
      [] p = "clientcert" -> "cacert"
      [] p = "cacert" -> "transport"
      [] p = "transport" -> "request"
      [] p = "request" -> "send"

\* the order of the blocks of ExecuteRequest before the request is sent:
\* the block a call goes on with when block p has not returned
StepAfter(p) ==
    CASE p = "tls" -> "clientcert"
      [] p = "clientcert" -> "cacert"
      [] p = "cacert" -> "request"
      [] p = "request" -> "transport"
      [] p = "transport" -> "send"

\* return from ExecuteRequest with (result, error) pair r
Return(r) ==
    /\ pc' = "done"
    /\ result' = r.result
    /\ err' = r.err

\* ExecuteRequest(cfg) is called
Call ==
    /\ pc = "idle"
    /\ \E c \in Configs : cfg' = c
    /\ pc' = "tls"
    /\ UNCHANGED <<tlsConfig, req, client, wire, answers, resp, respBody, result, err>>
    /\ UNCHANGED <<clock, caller>>
    /\ UNCHANGED fnVars

\* minVersion and the initial tls.Config
ResolveTLSVersion ==
    /\ pc = "tls"
    /\ LET r == IF cfg.TLSMinVersion # <<>>
                THEN getTLSVersion(cfg.TLSMinVersion)
                ELSE [v |-> VersionTLS12, err |-> Nil]
       IN  IF r.err # Nil
           THEN /\ Return(ReturnError(r.err))
                /\ UNCHANGED tlsConfig
           ELSE /\ tlsConfig' = [InsecureSkipVerify |-> cfg.Insecure,
                                 MinVersion |-> r.v,
                                 Certificates |-> <<>>,
                                 RootCAs |-> Nil]
                /\ pc' = StepAfter("tls")
                /\ UNCHANGED <<result, err>>
    /\ UNCHANGED <<cfg, req, client, wire, answers, resp, respBody>>
    /\ UNCHANGED <<clock, caller>>
    /\ UNCHANGED fnVars

\* client certificate (mTLS)
LoadClientCertificate ==
    /\ pc = "clientcert"
    /\ LET r == clientCertificates(cfg.ClientCertPEM, cfg.ClientKeyPEM) IN
       IF r.err # Nil
       THEN /\ Return(ReturnError(r.err))
            /\ UNCHANGED tlsConfig
       ELSE /\ tlsConfig' = [tlsConfig EXCEPT !.Certificates = r.certs]
            /\ pc' = StepAfter("clientcert")
            /\ UNCHANGED <<result, err>>
    /\ UNCHANGED <<cfg, req, client, wire, answers, resp, respBody>>
    /\ UNCHANGED <<clock, caller>>
    /\ UNCHANGED fnVars

\* CA certificate
LoadCACertificates ==
    /\ pc = "cacert"
    /\ IF cfg.CACertPEM # <<>>
       THEN LET r == loadCACerts(cfg.CACertPEM, <<>>) IN
            IF r.err # Nil
            THEN /\ Return(ReturnError(r.err))
                 /\ UNCHANGED tlsConfig
            ELSE /\ tlsConfig' = [tlsConfig EXCEPT !.RootCAs = [certs |-> r.pool]]
                 /\ pc' = StepAfter("cacert")
                 /\ UNCHANGED <<result, err>>
       ELSE /\ pc' = StepAfter("cacert")
            /\ UNCHANGED <<tlsConfig, result, err>>
    /\ UNCHANGED <<cfg, req, client, wire, answers, resp, respBody>>
    /\ UNCHANGED <<clock, caller>>
    /\ UNCHANGED fnVars

\* build the HTTP request, set the headers and the basic auth
BuildRequest ==
    /\ pc = "request"
    /\ LET r == NewRequestWithContext(cfg.Method, cfg.URL, cfg.Body) IN
       IF r.err # Nil
       THEN /\ Return(ReturnError(r.err))
            /\ UNCHANGED req
       ELSE /\ \E order \in KeyOrders(cfg.Headers) :
                 LET h == setHeaders(r.req.Header, cfg.Headers, order) IN
                 req' = [r.req EXCEPT !.Header =
                            applyBasicAuth(h, cfg.Username, cfg.Password)]
            /\ pc' = StepAfter("request")
            /\ UNCHANGED <<result, err>>
    /\ UNCHANGED <<cfg, tlsConfig, client, wire, answers, resp, respBody>>
    /\ UNCHANGED <<clock, caller>>
    /\ UNCHANGED fnVars

\* transport + client
BuildClient ==
    /\ pc = "transport"
    /\ LET r == configureHTTPTransport(cfg.HTTPVersion, tlsConfig, cfg.Timeout) IN
       IF r.err # Nil
       THEN /\ Return(ReturnError(r.err))
            /\ UNCHANGED client
       ELSE /\ client' = NewClient(cfg.Timeout, r.t)
            /\ pc' = StepAfter("transport")
            /\ UNCHANGED <<result, err>>
    /\ UNCHANGED <<cfg, tlsConfig, req, wire, answers, resp, respBody>>
    /\ UNCHANGED <<clock, caller>>
    /\ UNCHANGED fnVars

\* client.Do puts a request on the network: the first one for cfg.URL, a
\* later one for the Location of the redirect response just received
SendRequest ==
    /\ pc = "send"
    /\ wire' = Append(wire, [target |-> Len(wire),
                             Method |-> req.Method,
                             Header |-> WireHeader(req.Header),
                             Body |-> req.Body])
    /\ pc' = "await"
    /\ UNCHANGED <<cfg, tlsConfig, req, client, answers, resp, respBody, result, err>>
    /\ UNCHANGED <<clock, caller>>
    /\ UNCHANGED fnVars

\* client.Do fails: connection refused, handshake failure
TransportFailure ==
    /\ pc = "await"
    /\ Return(ReturnError(ErrTransport(FALSE)))
    /\ UNCHANGED <<cfg, tlsConfig, req, client, wire, answers, resp, respBody>>
    /\ UNCHANGED <<clock, caller>>
    /\ UNCHANGED fnVars

\* the deadline of the client passes before the server has answered
ClientTimeout ==
    /\ pc = "await"
    /\ \E d \in 0..MaxDelay : ~WithinDeadline(client.Timeout, clock + d)
    /\ clock' = client.Timeout
    /\ Return(ReturnError(ErrTransport(TRUE)))
    /\ UNCHANGED <<cfg, tlsConfig, req, client, wire, answers, resp, respBody>>
    /\ UNCHANGED caller
    /\ UNCHANGED fnVars

\* the server answers the request in flight, d time units after it was sent
ReceiveResponse ==
    /\ pc = "await"
    /\ \E d \in 0..MaxDelay, r \in ServerResponses(Len(wire) - 1) :
         LET policy == RedirectPolicy(cfg.FollowRedirects, cfg.MaxRedirects, Len(wire)) IN
         /\ WithinDeadline(client.Timeout, clock + d)
         /\ clock' = clock + d
         /\ answers' = Append(answers, r)
         /\ IF IsRedirect(r) /\ policy = "follow"
            THEN /\ pc' = "send"
                 /\ UNCHANGED <<resp, result, err>>
            ELSE IF IsRedirect(r) /\ policy = "too_many_redirects"
            THEN /\ Return(ReturnError(ErrTooManyRedirects(cfg.MaxRedirects)))
                 /\ UNCHANGED resp
            ELSE /\ resp' = r
                 /\ pc' = "read"
                 /\ UNCHANGED <<result, err>>
    /\ UNCHANGED <<cfg, tlsConfig, req, client, wire, respBody>>
    /\ UNCHANGED caller
    /\ UNCHANGED fnVars

\* io.ReadAll(resp.Body): the body arrives after d time units, or the
\* connection breaks
ReadBody ==
    /\ pc = "read"
    /\ \/ \E d \in 0..MaxDelay :
            /\ WithinDeadline(client.Timeout, clock + d)
            /\ clock' = clock + d
            /\ respBody' = resp.Body
            /\ pc' = "status"
            /\ UNCHANGED <<result, err>>
       \/ /\ Return(ReturnError(ErrResponseRead))
          /\ UNCHANGED <<respBody, clock>>
    /\ UNCHANGED <<cfg, tlsConfig, req, client, wire, answers, resp>>
    /\ UNCHANGED caller
    /\ UNCHANGED fnVars

\* the deadline of the client passes while the body is read
ReadTimeout ==
    /\ pc = "read"
    /\ \E d \in 0..MaxDelay : ~WithinDeadline(client.Timeout, clock + d)
    /\ clock' = client.Timeout
    /\ Return(ReturnError(ErrResponseReadTimeout))
    /\ UNCHANGED <<cfg, tlsConfig, req, client, wire, answers, resp, respBody>>
    /\ UNCHANGED caller
    /\ UNCHANGED fnVars

\* check the expected status codes, parse the headers and return
CheckStatusAndReturn ==
    /\ pc = "status"
    /\ LET e == checkStatus(cfg.FailOnHTTPError, cfg.ExpectedStatusCodes, resp.StatusCode) IN
       IF e # Nil
       THEN Return(ReturnError(e))
       ELSE Return(ReturnResult(resp, respBody))
    /\ UNCHANGED <<cfg, tlsConfig, req, client, wire, answers, resp, respBody>>
    /\ UNCHANGED <<clock, caller>>
    /\ UNCHANGED fnVars

Next ==
    \/ Call
    \/ ResolveTLSVersion
    \/ LoadClientCertificate
    \/ LoadCACertificates
    \/ BuildRequest
    \/ BuildClient
    \/ SendRequest
    \/ TransportFailure
    \/ ClientTimeout
    \/ ReceiveResponse
    \/ ReadBody
    \/ ReadTimeout
    \/ CheckStatusAndReturn

Spec == Init /\ [][Next]_vars

(***************************************************************************)
(* The front ends: the Read of the data source and the Open of the         *)
(* ephemeral resource, which fill a RequestConfig from the attributes of   *)
(* the configuration, call ExecuteRequest and hand its outcome back.       *)
(***************************************************************************)
\* attribute values of the plugin framework: a null value reads as the zero
\* value of its type
NullString == [null |-> TRUE, value |-> ""]
StringValue(s) == [null |-> FALSE, value |-> s]
NullText == [null |-> TRUE, value |-> <<>>]
TextValue(s) == [null |-> FALSE, value |-> s]
NullInt64 == [null |-> TRUE, value |-> 0]
Int64Value(n) == [null |-> FALSE, value |-> n]
NullBool == [null |-> TRUE, value |-> FALSE]
BoolValue(b) == [null |-> FALSE, value |-> b]
NullMap == [null |-> TRUE, value |-> <<>>]
MapValue(m) == [null |-> FALSE, value |-> m]

\* timeout := 10 * time.Second
DefaultTimeout == 10

\* the configurations given to the front ends that vary the request
FrontEndRequestData ==
    {[url |-> StringValue("http://srv/"),
      request_method |-> m,
      request_headers |-> h,
      request_body |-> b,
      username |-> NullString,
      password |-> NullString,
      timeout |-> t,
      insecure |-> NullBool,
      http_version |-> NullText,
      client_cert |-> NullText,
      client_key |-> NullText,
      ca_cert |-> NullText,
      tls_min_version |-> NullText,
      expected_status_codes |-> ex,
      fail_on_http_error |-> f,
      follow_redirects |-> fr,
      max_redirects |-> Int64Value(1)] :
        m \in {NullString, StringValue(""), StringValue("POST")},
        h \in {NullMap, MapValue([k \in {"Content-Type"} |-> "v1"])},
        b \in {NullString, StringValue("payload")},
        t \in {NullInt64, Int64Value(0), Int64Value(1), Int64Value(30)},
        ex \in {<<>>, <<200>>},
        f \in {NullBool, BoolValue(TRUE)},
        fr \in {NullBool, BoolValue(TRUE)}}

\* the configurations given to the front ends that vary the TLS floor, the
\* protocol and the certificate material
FrontEndSettingsData ==
    {[url |-> StringValue("http://srv/"),
      request_method |-> NullString,
      request_headers |-> NullMap,
      request_body |-> NullString,
      username |-> NullString,
      password |-> NullString,
      timeout |-> NullInt64,
      insecure |-> NullBool,
      http_version |-> hv,
      client_cert |-> cp[1],
      client_key |-> cp[2],
      ca_cert |-> ca,
      tls_min_version |-> tv,
      expected_status_codes |-> <<200>>,
      fail_on_http_error |-> BoolValue(TRUE),
      follow_redirects |-> NullBool,
      max_redirects |-> NullInt64] :
        hv \in {NullText, TextValue(S_HTTP3), TextValue(<<"H", "T", "T", "P", "4">>)},
        cp \in {<<NullText, NullText>>,
                <<TextValue(<<CertBlock("k1")>>), TextValue(<<KeyBlock("k2")>>)>>},
        ca \in {NullText, TextValue(<<BadCertBlock>>)},
        tv \in {NullText, TextValue(S_TLS13), TextValue(<<"T", "L", "S", "1", "4">>)}}

\* the configurations given to the front ends that vary the credentials
\* and the Authorization header
FrontEndAuthData ==
    {[url |-> StringValue("http://srv/"),
      request_method |-> NullString,
      request_headers |-> h,
      request_body |-> NullString,
      username |-> u,
      password |-> pw,
      timeout |-> NullInt64,
      insecure |-> BoolValue(TRUE),
      http_version |-> NullText,
      client_cert |-> NullText,
      client_key |-> NullText,
      ca_cert |-> NullText,
      tls_min_version |-> NullText,
      expected_status_codes |-> <<>>,
      fail_on_http_error |-> NullBool,
      follow_redirects |-> NullBool,
      max_redirects |-> NullInt64] :
        h \in {NullMap,
               MapValue([k \in {"Authorization"} |-> "v1"]),
               MapValue([k \in {"Authorization", "Content-Type"} |-> "v2"])},
        u \in {NullString, StringValue(""), StringValue("user")},
        pw \in {NullString, StringValue("pass")}}

\* the configurations given to the front ends
FrontEndData == FrontEndRequestData \cup FrontEndSettingsData \cup FrontEndAuthData

\* hdrs of Read and Open
BuildHeaders(data) ==
    IF ~data.request_headers.null THEN data.request_headers.value ELSE <<>>

\* the RequestConfig the Read of the data source hands to ExecuteRequest
ReadConfig(data) ==
    [URL |-> data.url.value,
     Method |-> "GET",
     Body |-> "",
     Headers |-> BuildHeaders(data),
     Username |-> data.username.value,
     Password |-> data.password.value,
     Timeout |-> 10,
     Insecure |-> data.insecure.value,
     TLSMinVersion |-> data.tls_min_version.value,
     ClientCertPEM |-> data.client_cert.value,
     ClientKeyPEM |-> data.client_key.value,
     CACertPEM |-> data.ca_cert.value,
     HTTPVersion |-> data.http_version.value,
     ExpectedStatusCodes |-> data.expected_status_codes,
     FailOnHTTPError |-> data.fail_on_http_error.value,
     FollowRedirects |-> FALSE,
     MaxRedirects |-> 0]

\* the RequestConfig the Open of the ephemeral resource hands to
\* ExecuteRequest
OpenConfig(data) ==
    [URL |-> data.url.value,
     Method |-> IF ~data.request_method.null /\ data.request_method.value # ""
                THEN data.request_method.value
                ELSE "GET",
     Headers |-> BuildHeaders(data),
     Body |-> data.request_body.value,
     Username |-> data.username.value,
     Password |-> data.password.value,
     Timeout |-> IF ~data.timeout.null THEN data.timeout.value ELSE DefaultTimeout,
     Insecure |-> data.insecure.value,
     HTTPVersion |-> data.http_version.value,
     ClientCertPEM |-> data.client_cert.value,
     ClientKeyPEM |-> data.client_key.value,
     CACertPEM |-> data.ca_cert.value,
     TLSMinVersion |-> data.tls_min_version.value,
     ExpectedStatusCodes |-> data.expected_status_codes,
     FailOnHTTPError |-> data.fail_on_http_error.value,
     FollowRedirects |-> data.follow_redirects.value,
     MaxRedirects |-> data.max_redirects.value]

\* what the Read of the data source hands back: an error diagnostic, or the
\* state with the response attributes
FrontEndOutcome(r, e) ==
    IF e # Nil
    THEN [diags |-> <<[severity |-> "error", summary |-> "HTTP request failed",
                       detail |-> e.text]>>,
          state |-> Nil]
    ELSE [diags |-> <<>>,
          state |-> [response_code |-> Int64Value(r.ResponseCode),
                     response_body |-> StringValue(r.ResponseBody),
                     response_headers |-> MapValue(r.ResponseHeaders)]]

\* what Open hands back: an error diagnostic and no result, or the result
\* with the response attributes
OpenOutcome(r, e) ==
    IF e # Nil
    THEN [diags |-> <<[severity |-> "error", summary |-> "HTTP request failed",
                       detail |-> e.text]>>,
          state |-> Nil]
    ELSE [diags |-> <<>>,
          state |-> [response_code |-> Int64Value(r.ResponseCode),
                     response_body |-> StringValue(r.ResponseBody),
                     response_headers |-> MapValue(r.ResponseHeaders)]]

\* RequestDataSource.Read up to its call of ExecuteRequest
Read ==
    /\ pc = "idle"
    /\ \E data \in FrontEndData :
         /\ caller' = [kind |-> "Read", data |-> data, out |-> Nil]
         /\ cfg' = ReadConfig(data)
    /\ pc' = "tls"
    /\ UNCHANGED <<tlsConfig, req, client, wire, answers, resp, respBody, result, err>>
    /\ UNCHANGED clock
    /\ UNCHANGED fnVars

\* RequestDataSource.Read after ExecuteRequest has returned
ReadReturn ==
    /\ pc = "done"
    /\ caller # Nil /\ caller.kind = "Read"
    /\ caller' = [caller EXCEPT !.out = FrontEndOutcome(result, err)]
    /\ pc' = "returned"
    /\ UNCHANGED <<cfg, tlsConfig, req, client, wire, answers, resp, respBody, result, err>>
    /\ UNCHANGED clock
    /\ UNCHANGED fnVars

\* EphemeralRequest.Open up to its call of ExecuteRequest
Open ==
    /\ pc = "idle"
    /\ \E data \in FrontEndData :
         /\ caller' = [kind |-> "Open", data |-> data, out |-> Nil]
         /\ cfg' = OpenConfig(data)
    /\ pc' = "tls"
    /\ UNCHANGED <<tlsConfig, req, client, wire, answers, resp, respBody, result, err>>
    /\ UNCHANGED clock
    /\ UNCHANGED fnVars

\* EphemeralRequest.Open after ExecuteRequest has returned
OpenReturn ==
    /\ pc = "done"
    /\ caller # Nil /\ caller.kind = "Open"
    /\ caller' = [caller EXCEPT !.out = OpenOutcome(result, err)]
    /\ pc' = "returned"
    /\ UNCHANGED <<cfg, tlsConfig, req, client, wire, answers, resp, respBody, result, err>>
    /\ UNCHANGED clock
    /\ UNCHANGED fnVars

\* ReadLatestConfig with the method fixed to GET
ReadLatestConfig_FixedMethod(data) ==
    [OpenConfig(data) EXCEPT !.Method = "GET"]

\* the RequestConfig handed to ExecuteRequest by the Read of the data
\* source that knows follow_redirects and max_redirects
ReadLatestConfig(data) ==
    [URL |-> data.url.value,
     Method |-> IF ~data.request_method.null /\ data.request_method.value # ""
                THEN data.request_method.value
                ELSE "GET",
     Body |-> data.request_body.value,
     Headers |-> BuildHeaders(data),
     Username |-> data.username.value,
     Password |-> data.password.value,
     Timeout |-> IF ~data.timeout.null THEN data.timeout.value ELSE 10,
     Insecure |-> data.insecure.value,
     TLSMinVersion |-> data.tls_min_version.value,
     ClientCertPEM |-> data.client_cert.value,
     ClientKeyPEM |-> data.client_key.value,
     CACertPEM |-> data.ca_cert.value,
     HTTPVersion |-> data.http_version.value,
     ExpectedStatusCodes |-> data.expected_status_codes,
     FailOnHTTPError |-> data.fail_on_http_error.value,
     FollowRedirects |-> data.follow_redirects.value,
     MaxRedirects |-> data.max_redirects.value]

\* what that Read hands back: an error diagnostic and no state, or the
\* state with the response attributes
ReadLatestOutcome(r, e) ==
    IF e # Nil
    THEN [diags |-> <<[severity |-> "error", summary |-> "HTTP request failed",
                       detail |-> e.text]>>,
          state |-> Nil]
    ELSE [diags |-> <<>>,
          state |-> [response_code |-> Int64Value(r.ResponseCode),
                     response_body |-> StringValue(r.ResponseBody),
                     response_headers |-> MapValue(r.ResponseHeaders)]]

\* that Read up to its call of ExecuteRequest
ReadLatest ==
    /\ pc = "idle"
    /\ \E data \in FrontEndData :
         /\ caller' = [kind |-> "ReadLatest", data |-> data, out |-> Nil]
         /\ cfg' = ReadLatestConfig(data)
    /\ pc' = "tls"
    /\ UNCHANGED <<tlsConfig, req, client, wire, answers, resp, respBody, result, err>>
    /\ UNCHANGED clock
    /\ UNCHANGED fnVars

\* that Read after ExecuteRequest has returned
ReadLatestReturn ==
    /\ pc = "done"
    /\ caller # Nil /\ caller.kind = "ReadLatest"
    /\ caller' = [caller EXCEPT !.out = ReadLatestOutcome(result, err)]
    /\ pc' = "returned"
    /\ UNCHANGED <<cfg, tlsConfig, req, client, wire, answers, resp, respBody, result, err>>
    /\ UNCHANGED clock
    /\ UNCHANGED fnVars

\* CheckRedirect of a client that sets none: net/http stops after 10
\* requests
DefaultMaxRedirects == 10

\* what the Read that does the exchange itself asks of the client, as the
\* RequestConfig of an equal call of ExecuteRequest: default TLS settings
\* but for server verification, the redirect policy of net/http, no status
\* expectation
InlineConfig(data) ==
    [URL |-> data.url.value,
     Method |-> IF ~data.request_method.null THEN data.request_method.value ELSE "GET",
     Headers |-> BuildHeaders(data),
     Body |-> IF ~data.request_body.null THEN data.request_body.value ELSE "",
     Username |-> data.username.value,
     Password |-> data.password.value,
     Timeout |-> IF ~data.timeout.null THEN data.timeout.value ELSE 10,
     Insecure |-> data.insecure.value,
     TLSMinVersion |-> <<>>,
     ClientCertPEM |-> <<>>, ClientKeyPEM |-> <<>>, CACertPEM |-> <<>>,
     HTTPVersion |-> <<>>,
     ExpectedStatusCodes |-> <<>>,
     FailOnHTTPError |-> FALSE,
     FollowRedirects |-> TRUE,
     MaxRedirects |-> DefaultMaxRedirects]

\* the header of the request of that Read: the basic auth first, then the
\* entries of request_headers, visited in the order given
InlineHeader(data, order) ==
    LET auth == IF ~data.username.null /\ data.username.value # ""
                THEN SetBasicAuth(<<>>, data.username.value, data.password.value)
                ELSE <<>>
    IN  IF ~data.request_headers.null
        THEN setHeaders(auth, data.request_headers.value, order)
        ELSE auth

\* what that Read hands back: a diagnostic that names the step that
\* failed, or the state with the response attributes
InlineOutcome(r, e) ==
    IF e # Nil
    THEN [diags |-> <<[severity |-> "error",
                       summary |-> IF e.kind = "RequestBuildFailure"
                                   THEN "Error creating HTTP request"
                                   ELSE IF e.kind = "ResponseReadFailure"
                                   THEN "Error reading response body"
                                   ELSE "Error sending HTTP request",
                       detail |-> e.text]>>,
          state |-> Nil]
    ELSE [diags |-> <<>>,
          state |-> [response_headers |-> MapValue(r.ResponseHeaders),
                     response_body |-> StringValue(r.ResponseBody),
                     response_code |-> Int64Value(r.ResponseCode)]]

\* the Read of the data source that does the exchange itself, up to its
\* client.Do
ReadInline ==
    /\ pc = "idle"
    /\ \E data \in FrontEndData :
         LET c == InlineConfig(data)
             r == NewRequestWithContext(c.Method, c.URL, c.Body)
             tc == [InsecureSkipVerify |-> data.insecure.value, MinVersion |-> 0,
                    Certificates |-> <<>>, RootCAs |-> Nil]
         IN  /\ cfg' = c
             /\ IF r.err # Nil
                THEN /\ caller' = [kind |-> "ReadInline", data |-> data,
                                   out |-> InlineOutcome(Nil, r.err)]
                     /\ pc' = "returned"
                     /\ UNCHANGED <<tlsConfig, req, client>>
                ELSE /\ caller' = [kind |-> "ReadInline", data |-> data, out |-> Nil]
                     /\ \E order \in KeyOrders(BuildHeaders(data)) :
                          req' = [r.req EXCEPT !.Header = InlineHeader(data, order)]
                     /\ tlsConfig' = tc
                     /\ client' = NewClient(c.Timeout,
                                            [type |-> "http.Transport",
                                             TLSClientConfig |-> tc])
                     /\ pc' = "send"
    /\ UNCHANGED <<wire, answers, resp, respBody, result, err>>
    /\ UNCHANGED clock
    /\ UNCHANGED fnVars

\* that Read after client.Do and io.ReadAll
ReadInlineReturn ==
    /\ pc = "done"
    /\ caller # Nil /\ caller.kind = "ReadInline"
    /\ caller' = [caller EXCEPT !.out = InlineOutcome(result, err)]
    /\ pc' = "returned"
    /\ UNCHANGED <<cfg, tlsConfig, req, client, wire, answers, resp, respBody, result, err>>
    /\ UNCHANGED clock
    /\ UNCHANGED fnVars

\* the front ends and the direct callers of ExecuteRequest
NextFrontEnd ==
    \/ ReadInline
    \/ ReadInlineReturn
    \/ Read
    \/ ReadReturn
    \/ ReadLatest
    \/ ReadLatestReturn
    \/ Open
    \/ OpenReturn
    \/ Next

SpecFrontEnd == Init /\ [][NextFrontEnd]_vars

(***************************************************************************)
(* Properties of ExecuteRequest.                                           *)
(***************************************************************************)
Range(l) == {l[i] : i \in DOMAIN l}

\* the call got a response and read its body
Completed == pc = "done" /\ resp # Nil /\ respBody # Nil

\* the status check has nothing to object to the response
StatusAccepted ==
    \/ ~cfg.FailOnHTTPError
    \/ cfg.ExpectedStatusCodes = <<>>
    \/ resp.StatusCode \in Range(cfg.ExpectedStatusCodes)

\* the result is the response r
ResultIs(r) ==
    /\ err = Nil
    /\ result # Nil
    /\ result.ResponseCode = r.StatusCode
    /\ result.ResponseBody = r.Body
    /\ DOMAIN result.ResponseHeaders = DOMAIN r.Header

\* C1: with failOnHTTPError = true and a non-empty expectedStatusCodes, a
\* call that completes with status s returns an UnexpectedStatusCode error
\* and no result when s is not in the list, and succeeds with
\* responseCode = s when it is.
C1_ExpectedStatusEnforced ==
    (Completed /\ cfg.FailOnHTTPError /\ cfg.ExpectedStatusCodes # <<>>) =>
        IF resp.StatusCode \in Range(cfg.ExpectedStatusCodes)
        THEN err = Nil /\ result # Nil /\ result.ResponseCode = resp.StatusCode
        ELSE result = Nil /\ err # Nil /\ err.kind = "UnexpectedStatusCode"

C1_Witness ==
    /\ Completed
    /\ cfg.FailOnHTTPError
    /\ cfg.ExpectedStatusCodes = <<200, 404>>
    /\ resp.StatusCode = 500
    /\ result = Nil
    /\ err = ErrUnexpectedStatus(500)

\* C2: the status check is skipped when expectedStatusCodes is empty (even
\* with failOnHTTPError = true) and when failOnHTTPError = false (even with
\* a list that lacks the status): the call succeeds for every status.
C2_StatusCheckSkipped ==
    (Completed /\ (cfg.ExpectedStatusCodes = <<>> \/ ~cfg.FailOnHTTPError)) =>
        err = Nil /\ result # Nil /\ result.ResponseCode = resp.StatusCode

C2_Witness ==
    /\ Completed
    /\ cfg.FailOnHTTPError
    /\ cfg.ExpectedStatusCodes = <<>>
    /\ resp.StatusCode = 500
    /\ result # Nil
    /\ result.ResponseCode = 500

RedirectChain(n) ==
    /\ Len(answers) >= n
    /\ \A i \in 1..n : IsRedirect(answers[i])

C6_ResultXorError ==
    IF pc = "done"
    THEN (result = Nil) # (err = Nil)
    ELSE result = Nil /\ err = Nil

C6_Witness ==
    /\ pc = "done"
    /\ resp # Nil
    /\ err = ErrResponseRead
    /\ result = Nil

HTTP3Names == CaseVariants(S_HTTP3) \cup CaseVariants(S_HTTP3s)

\* C7: a call with httpVersion HTTP3 or HTTP/3 (any case) whose TLS floor
\* resolved below TLS13 builds no transport and sends nothing, and once it
\* has built its request it fails with 'HTTP/3 requires TLS 1.3'; with
\* TLS13 the HTTP/3 transport is built.
C7_HTTP3NeedsTLS13 ==
    (cfg # Nil /\ cfg.HTTPVersion \in HTTP3Names /\ tlsConfig # Nil) =>
        IF tlsConfig.MinVersion < VersionTLS13
        THEN /\ client = Nil
             /\ wire = <<>>
             /\ result = Nil
             /\ (pc = "done" /\ req # Nil) => err = ErrHTTP3RequiresTLS13
        ELSE (pc \notin {"clientcert", "cacert", "request", "transport"} /\ req # Nil) =>
                 (client # Nil /\ client.Transport = HTTP3Transport(tlsConfig))

C7_Witness ==
    /\ pc = "done"
    /\ cfg.HTTPVersion = <<"H", "t", "t", "P", "/", "3">>
    /\ cfg.TLSMinVersion = <<>>
    /\ tlsConfig.MinVersion = VersionTLS12
    /\ err = ErrHTTP3RequiresTLS13
    /\ client = Nil
    /\ wire = <<>>

\* the CERTIFICATE blocks of a PEM text
CertificateBlocks(data) ==
    {b \in Range(pemBlocks(data)) : b.Type = "CERTIFICATE"}

\* the call has got past its CA certificate step without returning
AfterCAStep ==
    \/ pc \in {"request", "transport", "send", "await", "read", "status"}
    \/ pc = "done" /\ result # Nil

\* C11: a non-empty caCertPEM that puts no certificate in the trust pool
\* (undecodable text, or only blocks of other types) makes the call fail with
\* CAParseFailure before anything is sent, and an empty pool is never
\* installed as RootCAs
C11_EmptyTrustPoolRejected ==
    (cfg # Nil /\ cfg.CACertPEM # <<>> /\ CertificateBlocks(cfg.CACertPEM) = {})
        => /\ wire = <<>>
           /\ tlsConfig # Nil => tlsConfig.RootCAs # [certs |-> <<>>]
           /\ pc = "done" =>
                 /\ result = Nil
                 /\ err.kind \in {"InvalidTLSVersion", "CertParseFailure", "CAParseFailure"}

\* C12: after the CA step the trust pool holds every certificate of the
\* CERTIFICATE blocks of caCertPEM, each once, and nothing else; when all
\* those blocks are well formed the load succeeds
C12_AllCACertsLoaded ==
    (cfg # Nil /\ cfg.CACertPEM # <<>>) =>
        /\ (tlsConfig # Nil /\ tlsConfig.RootCAs # Nil) =>
              /\ Range(tlsConfig.RootCAs.certs)
                    = {b.key : b \in CertificateBlocks(cfg.CACertPEM)}
              /\ Len(tlsConfig.RootCAs.certs)
                    = Cardinality({b.key : b \in CertificateBlocks(cfg.CACertPEM)})
        /\ AfterCAStep => tlsConfig.RootCAs # Nil
        /\ (\A b \in CertificateBlocks(cfg.CACertPEM) : b.parses) =>
              ~(pc = "done" /\ err # Nil /\ err.kind = "CAParseFailure")

C12_Witness ==
    /\ pc = "done"
    /\ result # Nil
    /\ cfg.CACertPEM = <<CertBlock("k1"), CertBlock("k2")>>
    /\ tlsConfig.RootCAs = [certs |-> <<"k1", "k2">>]

\* C13: with clientCertPEM and clientKeyPEM both non-empty and malformed or
\* not matching, a call that reaches its client certificate step (its TLS
\* version is valid) fails there with CertParseFailure: no result, no
\* request built, nothing sent, no certificate in the TLS configuration
C13_BadClientPairFailsFast ==
    (cfg # Nil /\ cfg.ClientCertPEM # <<>> /\ cfg.ClientKeyPEM # <<>>
        /\ ~X509KeyPair(cfg.ClientCertPEM, cfg.ClientKeyPEM).ok)
        => /\ wire = <<>> /\ answers = <<>>
           /\ req = Nil /\ client = Nil
           /\ result = Nil
           /\ tlsConfig # Nil => tlsConfig.Certificates = <<>>
           /\ \/ pc \in {"tls", "clientcert"}
              \/ /\ pc = "done"
                 /\ err # Nil
                 /\ IF tlsConfig = Nil THEN err.kind = "InvalidTLSVersion"
                                       ELSE err = ErrClientCert

C13_Witness ==
    /\ pc = "done"
    /\ cfg.ClientCertPEM = <<CertBlock("k1")>>
    /\ cfg.ClientKeyPEM = <<KeyBlock("k2")>>
    /\ err = ErrClientCert
    /\ result = Nil
    /\ wire = <<>>

\* C14: with exactly one of clientCertPEM and clientKeyPEM non-empty the
\* lone value is not parsed: no CertParseFailure is raised and the TLS
\* configuration, also the one handed to the transport, has no client
\* certificate
C14_LoneClientValueIgnored ==
    (cfg # Nil /\ ((cfg.ClientCertPEM = <<>>) # (cfg.ClientKeyPEM = <<>>)))
        => /\ tlsConfig # Nil => tlsConfig.Certificates = <<>>
           /\ client # Nil => client.Transport.TLSClientConfig.Certificates = <<>>
           /\ (pc = "done" /\ err # Nil) => err.kind # "CertParseFailure"
           /\ pc = "cacert" => tlsConfig # Nil

C14_Witness ==
    /\ pc = "done"
    /\ cfg.ClientCertPEM = <<Junk>>
    /\ cfg.ClientKeyPEM = <<>>
    /\ result # Nil
    /\ wire # <<>>
    /\ client.Transport.TLSClientConfig.Certificates = <<>>

\* the entries of cfg.Headers whose name is the header name n
EntriesNamed(n) == {k \in DOMAIN cfg.Headers : CanonicalHeaderKey(k) = n}

\* C15: with a non-empty username every request sent carries the Basic
\* credentials of (username, password), whatever the password
C15_BasicAuthAttached ==
    (cfg # Nil /\ cfg.Username # "") =>
        \A i \in DOMAIN wire :
            /\ "Authorization" \in DOMAIN wire[i].Header
            /\ wire[i].Header["Authorization"]
                  = "Basic " \o cfg.Username \o ":" \o cfg.Password

C15_Witness ==
    /\ pc = "done"
    /\ result # Nil
    /\ cfg.Username = "user"
    /\ cfg.Password = ""
    /\ wire[1].Header["Authorization"] = "Basic user:"

\* C16 as stated: with an empty username no request sent has an
\* Authorization header
C16_NoAuthorizationWithoutUsername ==
    (cfg # Nil /\ cfg.Username = "") =>
        \A i \in DOMAIN wire : "Authorization" \notin DOMAIN wire[i].Header

\* C16: with an empty username no Basic credentials are attached: a request
\* sent has an Authorization header only if cfg.Headers has an entry of that
\* name, and then it carries the value of that entry
C16_NoCredentialsWithoutUsername ==
    (cfg # Nil /\ cfg.Username = "") =>
        \A i \in DOMAIN wire :
            IF EntriesNamed("Authorization") = {}
            THEN "Authorization" \notin DOMAIN wire[i].Header
            ELSE /\ "Authorization" \in DOMAIN wire[i].Header
                 /\ \E k \in EntriesNamed("Authorization") :
                        wire[i].Header["Authorization"] = cfg.Headers[k]

C16_Witness ==
    /\ pc = "done"
    /\ result # Nil
    /\ cfg.Username = ""
    /\ cfg.Password = "pass"
    /\ DOMAIN cfg.Headers = {"Content-Type"}
    /\ DOMAIN wire[1].Header = {"Content-Type", "User-Agent"}

\* C17 as stated: every entry (k, v) of cfg.Headers is on the request sent,
\* under its header name, with the value v
C17_EveryHeaderSent ==
    (cfg # Nil /\ wire # <<>>) =>
        \A k \in DOMAIN cfg.Headers :
            /\ CanonicalHeaderKey(k) \in DOMAIN wire[1].Header
            /\ wire[1].Header[CanonicalHeaderKey(k)] = cfg.Headers[k]

\* C17: the request sent has, under its canonical name, every entry of
\* cfg.Headers that is the only entry of its name, with its value and in
\* place of the default of that name, except an Authorization entry when
\* username is non-empty; of entries that differ only in letter case one
\* value is sent; no other header but the defaults and the credentials is
\* on the request
C17_HeadersSent ==
    (cfg # Nil /\ wire # <<>>) =>
        /\ \A k \in DOMAIN cfg.Headers :
              LET n == CanonicalHeaderKey(k) IN
              /\ n \in DOMAIN wire[1].Header
              /\ (n = "Authorization" /\ cfg.Username # "")
                 \/ \E j \in EntriesNamed(n) : wire[1].Header[n] = cfg.Headers[j]
              /\ (EntriesNamed(n) = {k} /\ ~(n = "Authorization" /\ cfg.Username # ""))
                    => wire[1].Header[n] = cfg.Headers[k]
        /\ DOMAIN wire[1].Header
              = {CanonicalHeaderKey(k) : k \in DOMAIN cfg.Headers}
                  \cup {"User-Agent"}
                  \cup (IF cfg.Username # "" THEN {"Authorization"} ELSE {})
        /\ EntriesNamed("User-Agent") = {} => wire[1].Header["User-Agent"] = DefaultUserAgent

C17_Witness ==
    /\ pc = "done"
    /\ result # Nil
    /\ cfg.Headers = [k \in {"content-type", "User-Agent"} |->
                        IF k = "User-Agent" THEN "v1" ELSE "v2"]
    /\ wire[1].Header = [k \in {"Content-Type", "User-Agent"} |->
                            IF k = "User-Agent" THEN "v1" ELSE "v2"]

\* the values v in their order, with ", " between two neighbours
CommaJoined(v) ==
    LET upTo[i \in 0..Len(v)] ==
            IF i = 0 THEN ""
            ELSE IF i = 1 THEN v[1]
            ELSE upTo[i - 1] \o ", " \o v[i]
    IN  upTo[Len(v)]

\* C18: a result is the final response as the server gave it: its status
\* code, its body unchanged, and one entry per header name holding the
\* values of that header in their order, joined with ", "
C18_ResultIsVerbatim ==
    (pc = "done" /\ result # Nil) =>
        /\ resp = answers[Len(answers)]
        /\ resp \in ServerResponses(Len(answers) - 1)
        /\ result.ResponseCode = resp.StatusCode
        /\ result.ResponseBody = resp.Body
        /\ DOMAIN result.ResponseHeaders = DOMAIN resp.Header
        /\ \A n \in DOMAIN resp.Header :
              result.ResponseHeaders[n] = CommaJoined(resp.Header[n])

C18_Witness ==
    /\ pc = "done"
    /\ result # Nil
    /\ result.ResponseCode = 404
    /\ result.ResponseBody = <<"body", 404, 0>>
    /\ DOMAIN result.ResponseHeaders = {"Via", "Server", "Set-Cookie"}
    /\ result.ResponseHeaders["Set-Cookie"] = "x, y, z"
    /\ result.ResponseHeaders["Server"] = "s"

\* C19: with a timeout configured, a call is never in flight and never has
\* a result once the timeout has gone by since the request was sent; a call
\* whose response was not there in time has ended with a timeout-classified
\* error and no result: a transport error when the response itself was late,
\* the error of the read when only the body was
C19_TimeoutAborts ==
    (cfg # Nil /\ cfg.Timeout > 0) =>
        /\ pc \in {"send", "await", "read", "status"} => clock < cfg.Timeout
        /\ result # Nil => clock < cfg.Timeout
        /\ clock <= cfg.Timeout
        /\ clock = cfg.Timeout =>
              /\ pc = "done"
              /\ result = Nil
              /\ err = IF resp = Nil THEN ErrTransport(TRUE) ELSE ErrResponseReadTimeout

C19_Witness ==
    /\ pc = "done"
    /\ cfg.Timeout = 1
    /\ clock = 1
    /\ Len(wire) = 1
    /\ answers = <<>>
    /\ result = Nil
    /\ err = ErrTransport(TRUE)

\* C23: the error of a status mismatch names the status code the server
\* answered with and the expected status codes of the call
C23_MismatchNamesActualAndExpected ==
    (pc = "done" /\ err # Nil /\ err.kind = "UnexpectedStatusCode") =>
        /\ err.arg = resp.StatusCode
        /\ "expected" \in DOMAIN err
        /\ err.expected = cfg.ExpectedStatusCodes

(***************************************************************************)
(* Properties of the front ends.                                           *)
(***************************************************************************)
\* the caller has configured a timeout
TimeoutConfigured ==
    IF caller = Nil THEN cfg.Timeout # 0 ELSE ~caller.data.timeout.null

\* the timeout the caller has configured
TimeoutWanted ==
    IF caller = Nil THEN cfg.Timeout ELSE caller.data.timeout.value

\* C20: the client of a call runs with the configured timeout as its overall
\* deadline, and with 10 seconds when none is configured, whether
\* ExecuteRequest is called directly, by the Read of the data source or by
\* the Open of the ephemeral resource
C20_DeadlineConfiguredOrDefault ==
    client # Nil =>
        client.Timeout = IF TimeoutConfigured THEN TimeoutWanted ELSE DefaultTimeout

\* the errors of ExecuteRequest that tell of a bad configuration: TLS
\* version, HTTP version, HTTP/3 prerequisite, certificate material
ConfigurationErrors ==
    {ErrInvalidTLSVersion(cfg.TLSMinVersion), ErrInvalidHTTPVersion(cfg.HTTPVersion),
     ErrHTTP3RequiresTLS13, ErrClientCert, ErrCACert}

\* the summaries under which the front ends report the errors es
SummariesFor(es) ==
    {o.diags[1].summary :
        o \in UNION {{FrontEndOutcome(Nil, e), ReadLatestOutcome(Nil, e), OpenOutcome(Nil, e)} :
                        e \in es}}

\* C24: the diagnostic a front end adds for a transport error, a response
\* read failure or a status mismatch has a summary under which no
\* configuration error is reported, and a response read failure is not
\* reported under the summary of a transport error
C24_ConfigAndRuntimeErrorsDistinct ==
    (pc = "returned" /\ err # Nil) =>
        /\ err.kind \in {"TransportError", "ResponseReadFailure", "UnexpectedStatusCode"}
              => caller.out.diags[1].summary \notin SummariesFor(ConfigurationErrors)
        /\ err.kind = "ResponseReadFailure"
              => caller.out.diags[1].summary
                    \notin SummariesFor({ErrTransport(TRUE), ErrTransport(FALSE)})

\* the outcomes ExecuteRequest has handed to a front end
Returned == pc \in {"done", "returned"} /\ caller # Nil

\* C30: the Read of the data source and the Open of the ephemeral resource
\* build the same RequestConfig from the same attribute values, and from
\* the same outcome of ExecuteRequest they hand back the same response
\* attributes, or one error diagnostic and no state or result
C30_ReadAndOpenEquivalent ==
    /\ pc = "idle" =>
          \A data \in FrontEndData : ReadLatestConfig(data) = OpenConfig(data)
    /\ (caller # Nil /\ caller.kind \in {"ReadLatest", "Open"}) =>
          /\ cfg = ReadLatestConfig(caller.data)
          /\ cfg = OpenConfig(caller.data)
    /\ (Returned /\ caller.kind \in {"ReadLatest", "Open"}) =>
          /\ ReadLatestOutcome(result, err) = OpenOutcome(result, err)
          /\ pc = "returned" => caller.out = OpenOutcome(result, err)
          /\ (pc = "returned" /\ err # Nil) =>
                /\ caller.out.state = Nil
                /\ Len(caller.out.diags) = 1
                /\ caller.out.diags[1].severity = "error"
          /\ (pc = "returned" /\ err = Nil) =>
                /\ caller.out.diags = <<>>
                /\ caller.out.state.response_code = Int64Value(result.ResponseCode)
                /\ caller.out.state.response_body = StringValue(result.ResponseBody)
                /\ caller.out.state.response_headers = MapValue(result.ResponseHeaders)

\* a Read that asked for POST with a body has returned its state
C30_Witness ==
    /\ pc = "returned"
    /\ caller # Nil /\ caller.kind = "ReadLatest"
    /\ caller.data.request_method = StringValue("POST")
    /\ caller.data.request_body = StringValue("payload")
    /\ err = Nil
    /\ caller.out.state # Nil
    /\ cfg.Method = "POST"

\* C28: the headers of the outgoing request are a function of
\* RequestConfig.Headers alone: whatever the order in which the map is
\* visited, the request carries the same header set, also when two keys
\* differ only in letter case
C28_HeadersDeterministic ==
    (req # Nil /\ cfg # Nil /\ (caller = Nil \/ caller.kind # "ReadInline")) =>
        \A order \in KeyOrders(cfg.Headers) :
            req.Header = applyBasicAuth(setHeaders(<<>>, cfg.Headers, order),
                                        cfg.Username, cfg.Password)

\* C27: with a non-empty username and an Authorization entry in the
\* headers, the Authorization header sent is the Basic credentials of
\* username and password, not the configured value
C27_BasicAuthOverridesHeader ==
    (cfg # Nil /\ cfg.Username # "" /\ EntriesNamed("Authorization") # {}) =>
        \A i \in DOMAIN wire :
            /\ "Authorization" \in DOMAIN wire[i].Header
            /\ wire[i].Header["Authorization"]
                  = "Basic " \o cfg.Username \o ":" \o cfg.Password

\* the method a front end is asked to use
MethodWanted ==
    IF caller.data.request_method.null \/ caller.data.request_method.value = ""
    THEN "GET"
    ELSE caller.data.request_method.value

\* C21: the request a Read of the data source sends has the configured
\* request_method, GET when the attribute is null or empty, and the
\* configured request_body
C21_ReadSendsMethodAndBody ==
    (caller # Nil /\ caller.kind \in {"Read", "ReadLatest"} /\ wire # <<>>) =>
        /\ wire[1].Method = MethodWanted
        /\ wire[1].Body = caller.data.request_body.value

(***************************************************************************)
(* Two calls of ExecuteRequest running concurrently.  Everything a call    *)
(* works on is a local variable of ExecuteRequest: the call that has the   *)
(* processor has its locals in the variables of the module, the one that   *)
(* waits has them in sched.parked.                                         *)
(***************************************************************************)
\* the calls that run concurrently
ConcurrentConfigs ==
    {BaseConfig,
     [BaseConfig EXCEPT !.TLSMinVersion = S_TLS13, !.HTTPVersion = S_HTTP2,
                        !.Timeout = 1, !.Method = "POST", !.Body = "payload",
                        !.Username = "user", !.Password = "pass"],
     [BaseConfig EXCEPT !.FailOnHTTPError = TRUE, !.ExpectedStatusCodes = <<200>>,
                        !.Insecure = TRUE, !.Timeout = 0,
                        !.CACertPEM = <<CertBlock("k1")>>]}

\* the local variables of a call that has just been entered with config c
Entered(c) ==
    [pc |-> "tls", cfg |-> c, tlsConfig |-> Nil, req |-> Nil, client |-> Nil,
     wire |-> <<>>, answers |-> <<>>, resp |-> Nil, respBody |-> Nil,
     result |-> Nil, err |-> Nil, clock |-> 0, caller |-> Nil]

\* the local variables of the call that has the processor
Running ==
    [pc |-> pc, cfg |-> cfg, tlsConfig |-> tlsConfig, req |-> req, client |-> client,
     wire |-> wire, answers |-> answers, resp |-> resp, respBody |-> respBody,
     result |-> result, err |-> err, clock |-> clock, caller |-> caller]

\* Resumed with one tls.Config for the whole package instead of one per
\* call
Resumed_SharedTLSConfig(saved, current) ==
    [saved EXCEPT !.tlsConfig = current.tlsConfig]

\* the local variables a call finds when it gets the processor back from
\* another call: its own, as it left them
Resumed(saved, current) == saved

InitConcurrent ==
    /\ \E c1, c2 \in ConcurrentConfigs :
         /\ pc = "tls"
         /\ cfg = c1
         /\ sched = [running |-> 1, parked |-> Entered(c2)]
    /\ tlsConfig = Nil
    /\ req = Nil
    /\ client = Nil
    /\ wire = <<>>
    /\ answers = <<>>
    /\ resp = Nil
    /\ respBody = Nil
    /\ result = Nil
    /\ err = Nil
    /\ clock = 0
    /\ caller = Nil
    /\ fnIn = Nil
    /\ fnOut = Nil

\* the scheduler takes the processor from one call and gives it to the
\* other
Switch ==
    /\ sched # Nil
    /\ LET next == Resumed(sched.parked, Running) IN
       /\ pc' = next.pc
       /\ cfg' = next.cfg
       /\ tlsConfig' = next.tlsConfig
       /\ req' = next.req
       /\ client' = next.client
       /\ wire' = next.wire
       /\ answers' = next.answers
       /\ resp' = next.resp
       /\ respBody' = next.respBody
       /\ result' = next.result
       /\ err' = next.err
       /\ clock' = next.clock
       /\ caller' = next.caller
    /\ sched' = [running |-> 3 - sched.running, parked |-> Running]
    /\ UNCHANGED <<fnIn, fnOut>>

NextConcurrent ==
    \/ Switch
    \/ ResolveTLSVersion
    \/ LoadClientCertificate
    \/ LoadCACertificates
    \/ BuildRequest
    \/ BuildClient
    \/ SendRequest
    \/ TransportFailure
    \/ ClientTimeout
    \/ ReceiveResponse
    \/ ReadBody
    \/ ReadTimeout
    \/ CheckStatusAndReturn

SpecConcurrent == InitConcurrent /\ [][NextConcurrent]_vars

\* everything the call with locals c has built, sent and returned comes
\* from its own config and from the answers to its own requests, as when it
\* runs alone
OwnWork(c) ==
    /\ c.tlsConfig # Nil =>
          /\ c.tlsConfig.MinVersion
                = (IF c.cfg.TLSMinVersion = <<>> THEN VersionTLS12
                   ELSE getTLSVersion(c.cfg.TLSMinVersion).v)
          /\ c.tlsConfig.InsecureSkipVerify = c.cfg.Insecure
          /\ c.tlsConfig.RootCAs # Nil =>
                c.tlsConfig.RootCAs.certs = loadCACerts(c.cfg.CACertPEM, <<>>).pool
    /\ c.req # Nil =>
          /\ c.req.Method = c.cfg.Method
          /\ c.req.URL = c.cfg.URL
          /\ c.req.Body = c.cfg.Body
          /\ \E o \in KeyOrders(c.cfg.Headers) :
                c.req.Header = applyBasicAuth(setHeaders(<<>>, c.cfg.Headers, o),
                                              c.cfg.Username, c.cfg.Password)
    /\ c.client # Nil =>
          /\ c.client.Timeout = c.cfg.Timeout
          /\ c.client.Transport.TLSClientConfig = c.tlsConfig
    /\ \A i \in DOMAIN c.wire :
          /\ c.wire[i].Method = c.req.Method
          /\ c.wire[i].Body = c.req.Body
          /\ c.wire[i].Header = WireHeader(c.req.Header)
    /\ Len(c.answers) <= Len(c.wire)
    /\ \A i \in DOMAIN c.answers : c.answers[i].target = i - 1
    /\ (c.pc = "done" /\ c.respBody # Nil) =>
          LET a == c.answers[Len(c.answers)]
              e == checkStatus(c.cfg.FailOnHTTPError, c.cfg.ExpectedStatusCodes,
                               a.StatusCode)
          IN  /\ c.resp = a
              /\ c.respBody = a.Body
              /\ IF e # Nil
                 THEN c.result = Nil /\ c.err = e
                 ELSE c.result = RequestResult(a, a.Body) /\ c.err = Nil
    /\ c.pc # "done" => c.result = Nil /\ c.err = Nil

\* C25: however two calls are interleaved, each works on its own config, TLS
\* configuration, request, client and answers and returns what it returns
\* when it runs alone; a step of one call leaves the locals of the other as
\* they are, and a call gets the processor back with the locals it had
C25_CallsIndependent ==
    /\ [](sched # Nil => OwnWork(Running) /\ OwnWork(sched.parked))
    /\ [][sched'.running = sched.running => sched'.parked = sched.parked]_vars
    /\ [][sched'.running # sched.running =>
            Running' = sched.parked /\ sched'.parked = Running]_vars

C25_Witness ==
    /\ sched # Nil
    /\ pc = "done" /\ sched.parked.pc = "done"
    /\ cfg # sched.parked.cfg
    /\ tlsConfig.MinVersion # sched.parked.tlsConfig.MinVersion
    /\ result # Nil /\ sched.parked.result # Nil
    /\ result.ResponseCode # sched.parked.result.ResponseCode

(***************************************************************************)
(* The helper functions called directly, on inputs ExecuteRequest does not *)
(* necessarily pass them.                                                  *)
(***************************************************************************)
FnTLSConfigs ==
    {[InsecureSkipVerify |-> FALSE, MinVersion |-> m, Certificates |-> <<>>, RootCAs |-> Nil] :
        m \in TLSFloors}

FnInputs ==
    {[fn |-> "getTLSVersion", version |-> v] : v \in TLSNames}
    \cup {[fn |-> "configureHTTPTransport", httpVersion |-> h, tlsConfig |-> c, timeout |-> t] :
            h \in HTTPNames, c \in FnTLSConfigs, t \in Timeouts}

InitFn ==
    /\ pc = "idle"
    /\ cfg = Nil
    /\ tlsConfig = Nil
    /\ req = Nil
    /\ client = Nil
    /\ wire = <<>>
    /\ answers = <<>>
    /\ resp = Nil
    /\ respBody = Nil
    /\ result = Nil
    /\ err = Nil
    /\ clock = 0
    /\ caller = Nil
    /\ sched = Nil
    /\ fnIn \in FnInputs
    /\ fnOut = Nil

CallGetTLSVersion ==
    /\ fnOut = Nil
    /\ fnIn.fn = "getTLSVersion"
    /\ fnOut' = getTLSVersion(fnIn.version)
    /\ UNCHANGED <<fnIn, sched>>
    /\ UNCHANGED callVars

CallConfigureHTTPTransport ==
    /\ fnOut = Nil
    /\ fnIn.fn = "configureHTTPTransport"
    /\ fnOut' = configureHTTPTransport(fnIn.httpVersion, fnIn.tlsConfig, fnIn.timeout)
    /\ UNCHANGED <<fnIn, sched>>
    /\ UNCHANGED callVars

NextFn ==
    \/ CallGetTLSVersion
    \/ CallConfigureHTTPTransport

SpecFn == InitFn /\ [][NextFn]_vars

(***************************************************************************)
(* Properties of the helper functions.                                     *)
(***************************************************************************)
\* position of a TLS version name, in any letter case, in the order
\* TLS10, TLS11, TLS12, TLS13; 0 for every other string
TLSRank(s) ==
    IF s \in CaseVariants(S_TLS10) THEN 1
    ELSE IF s \in CaseVariants(S_TLS11) THEN 2
    ELSE IF s \in CaseVariants(S_TLS12) THEN 3
    ELSE IF s \in CaseVariants(S_TLS13) THEN 4
    ELSE 0

ReturnedByGetTLSVersion == fnIn.fn = "getTLSVersion" /\ fnOut # Nil

\* C8: getTLSVersion succeeds for exactly TLS10, TLS11, TLS12 and TLS13 in
\* any letter case, the floor of a later name is strictly above the floor
\* of every earlier one, and every other string (the empty one and names
\* with surrounding whitespace included) gets InvalidTLSVersion and floor 0.
C8_TLSVersionResolution ==
    ReturnedByGetTLSVersion =>
        IF TLSRank(fnIn.version) > 0
        THEN /\ fnOut.err = Nil
             /\ fnOut.v > 0
             /\ \A other \in TLSNames :
                   (TLSRank(other) > 0 /\ TLSRank(other) < TLSRank(fnIn.version)) =>
                       getTLSVersion(other).v < fnOut.v
        ELSE /\ fnOut.v = 0
             /\ fnOut.err # Nil
             /\ fnOut.err.kind = "InvalidTLSVersion"

C8_Witness ==
    /\ ReturnedByGetTLSVersion
    /\ fnIn.version = <<"t", "L", "s", "1", "3">>
    /\ fnOut.err = Nil
    /\ fnOut.v = VersionTLS13

HTTP11Names == {<<>>} \cup CaseVariants(S_HTTP11) \cup CaseVariants(S_HTTP11s)
HTTP2Names == CaseVariants(S_HTTP2) \cup CaseVariants(S_HTTP2s)

ReturnedByConfigureHTTPTransport == fnIn.fn = "configureHTTPTransport" /\ fnOut # Nil

\* the transport that name n stands for was selected
SelectedFor(n) ==
    IF n \in HTTP11Names
    THEN fnOut.err = Nil /\ fnOut.t # Nil /\ fnOut.t.type = "http.Transport"
         /\ ~fnOut.t.ForceAttemptHTTP2
    ELSE IF n \in HTTP2Names
    THEN fnOut.err = Nil /\ fnOut.t # Nil /\ fnOut.t.type = "http.Transport"
         /\ fnOut.t.ForceAttemptHTTP2
    ELSE (n \in HTTP3Names /\ fnIn.tlsConfig.MinVersion >= VersionTLS13) =>
             (fnOut.err = Nil /\ fnOut.t # Nil /\ fnOut.t.type = "http3.Transport")

\* C9 as claimed: the transport is selected by the trimmed, upper-cased
\* httpVersion, so neither letter case nor surrounding whitespace changes it.
C9_SelectionTrimmed ==
    ReturnedByConfigureHTTPTransport => SelectedFor(TrimSpace(fnIn.httpVersion))

\* C9 as amended: the transport is selected by the upper-cased httpVersion
\* ("", HTTP1.1, HTTP/1.1: HTTP/1.1 only; HTTP2, HTTP/2: HTTP/2 attempted;
\* HTTP3, HTTP/3 with a TLS13 floor: QUIC), so letter case never changes
\* it; a name with leading or trailing whitespace is not recognised and
\* gets InvalidHTTPVersion and no transport.
C9_SelectionCaseInsensitive ==
    ReturnedByConfigureHTTPTransport =>
        /\ SelectedFor(fnIn.httpVersion)
        /\ (fnIn.httpVersion # TrimSpace(fnIn.httpVersion)) =>
               (fnOut.t = Nil /\ fnOut.err # Nil /\ fnOut.err.kind = "InvalidHTTPVersion")

C9_Witness ==
    /\ ReturnedByConfigureHTTPTransport
    /\ fnIn.httpVersion = <<"h", "t", "t", "p", "/", "2">>
    /\ fnOut.err = Nil
    /\ fnOut.t.ForceAttemptHTTP2

\* C10: an httpVersion outside the recognised names gets no transport and
\* an InvalidHTTPVersion error whose message lists names of all the valid
\* values: HTTP/1.1, HTTP/2 and HTTP/3.
C10_ErrorListsValidValues ==
    (ReturnedByConfigureHTTPTransport
        /\ fnIn.tlsConfig.MinVersion = VersionTLS13
        /\ fnIn.httpVersion \notin HTTP11Names \cup HTTP2Names \cup HTTP3Names) =>
        /\ fnOut.t = Nil
        /\ fnOut.err # Nil
        /\ fnOut.err.kind = "InvalidHTTPVersion"
        /\ \E i \in DOMAIN fnOut.err.valid : fnOut.err.valid[i] \in HTTP11Names
        /\ \E i \in DOMAIN fnOut.err.valid : fnOut.err.valid[i] \in HTTP2Names
        /\ \E i \in DOMAIN fnOut.err.valid : fnOut.err.valid[i] \in HTTP3Names


\* C22: every transport configureHTTPTransport returns has the TLS
\* configuration it was given, unchanged, and dial, TLS handshake and
\* response header timeouts equal to its timeout argument
C22_TransportHonoursTLSAndTimeouts ==
    (ReturnedByConfigureHTTPTransport /\ fnOut.err = Nil) =>
        /\ fnOut.t.TLSClientConfig = fnIn.tlsConfig
        /\ \A f \in {"DialTimeout", "TLSHandshakeTimeout", "ResponseHeaderTimeout"} :
              /\ f \in DOMAIN fnOut.t
              /\ fnOut.t[f] = fnIn.timeout


\* the defects of a config, one per block of ExecuteRequest
BadTLSVersion ==
    /\ cfg.TLSMinVersion # <<>>
    /\ ToUpper(cfg.TLSMinVersion) \notin {S_TLS10, S_TLS11, S_TLS12, S_TLS13}
BadClientPair ==
    /\ cfg.ClientCertPEM # <<>> /\ cfg.ClientKeyPEM # <<>>
    /\ ~X509KeyPair(cfg.ClientCertPEM, cfg.ClientKeyPEM).ok
BadCABundle == \E b \in CertificateBlocks(cfg.CACertPEM) : ~b.parses
BadRequest ==
    \/ cfg.URL \notin WellFormedURLs
    \/ cfg.Method # "" /\ cfg.Method \notin ValidMethods
BadHTTPVersion ==
    ToUpper(cfg.HTTPVersion) \notin {<<>>, S_HTTP11, S_HTTP11s, S_HTTP2, S_HTTP2s,
                                     S_HTTP3, S_HTTP3s}
HTTP3BelowTLS13 ==
    /\ ToUpper(cfg.HTTPVersion) \in {S_HTTP3, S_HTTP3s}
    /\ ToUpper(cfg.TLSMinVersion) # S_TLS13

\* the error kind of the first block that fails on the config, "" if none
FirstDefect ==
    IF BadTLSVersion THEN "InvalidTLSVersion"
    ELSE IF BadClientPair THEN "CertParseFailure"
    ELSE IF BadCABundle THEN "CAParseFailure"
    ELSE IF BadRequest THEN "RequestBuildFailure"
    ELSE IF HTTP3BelowTLS13 THEN "ProtocolPrerequisiteUnmet"
    ELSE IF BadHTTPVersion THEN "InvalidHTTPVersion"
    ELSE ""

\* C26: a call whose config has defects ends with the error of the first
\* block, in the order TLS version, client certificate, CA certificate,
\* request, HTTP version, that fails on it, and has done nothing of a later
\* block; a call without defect fails only in the network call, then the
\* body read, then the status check
C26_FirstFailingStepReported ==
    cfg # Nil =>
        /\ FirstDefect # "" => wire = <<>> /\ result = Nil
        /\ pc = "done" =>
              IF FirstDefect # ""
              THEN /\ err # Nil
                   /\ err.kind = FirstDefect
                   /\ err.kind = "InvalidTLSVersion" => tlsConfig = Nil
                   /\ err.kind \in {"CertParseFailure", "CAParseFailure"}
                         => tlsConfig.Certificates = <<>> /\ tlsConfig.RootCAs = Nil
                   /\ req = Nil \/ err.kind \in {"ProtocolPrerequisiteUnmet",
                                                   "InvalidHTTPVersion"}
                   /\ client = Nil
              ELSE /\ wire # <<>>
                   /\ err # Nil =>
                         /\ err.kind \in {"TransportError", "TooManyRedirects",
                                           "ResponseReadFailure", "UnexpectedStatusCode"}
                         /\ err.kind \in {"TransportError", "TooManyRedirects"}
                               => resp = Nil /\ respBody = Nil
                         /\ err.kind = "ResponseReadFailure"
                               => resp # Nil /\ respBody = Nil
                         /\ err.kind = "UnexpectedStatusCode"
                               => resp # Nil /\ respBody # Nil

C26_Witness ==
    /\ pc = "done"
    /\ cfg.URL = "://bad"
    /\ BadHTTPVersion
    /\ ~BadTLSVersion /\ ~BadClientPair /\ ~BadCABundle
    /\ err = ErrRequestBuild
    /\ client = Nil

(***************************************************************************)
(* The CA certificate loop of ExecuteRequest, one iteration per step.      *)
(* fnIn holds cfg.CACertPEM; fnOut holds the locals of the block: rest,    *)
(* caCertPool, the error returned, and where control is.                   *)
(***************************************************************************)
\* the CA bundles given to the loop
CALoopTexts == UNION {[1..n -> PEMPieces] : n \in 0..MaxPEMBlocks + 1}

CALoopInputs == {[fn |-> "caLoop", caCertPEM |-> t] : t \in CALoopTexts}

InitCALoop ==
    /\ pc = "idle"
    /\ cfg = Nil
    /\ tlsConfig = Nil
    /\ req = Nil
    /\ client = Nil
    /\ wire = <<>>
    /\ answers = <<>>
    /\ resp = Nil
    /\ respBody = Nil
    /\ result = Nil
    /\ err = Nil
    /\ clock = 0
    /\ caller = Nil
    /\ sched = Nil
    /\ fnIn \in CALoopInputs
    /\ fnOut = Nil

\* one iteration that forgets 'rest = r'
caLoopStep_KeepRest(st) ==
    LET d == pemDecode(st.rest) IN
    IF d.block = Nil
    THEN [st EXCEPT !.at = "done"]
    ELSE IF d.block.Type = "CERTIFICATE"
         THEN IF ~d.block.parses
              THEN [st EXCEPT !.at = "failed", !.err = ErrCACert]
              ELSE [st EXCEPT !.pool = AddCert(st.pool, d.block.key)]
         ELSE st

\* one iteration of 'for { block, r := pem.Decode(rest) ... rest = r }'
caLoopStep(st) ==
    LET d == pemDecode(st.rest) IN
    IF d.block = Nil
    THEN [st EXCEPT !.at = "done"]
    ELSE IF d.block.Type = "CERTIFICATE"
         THEN IF ~d.block.parses
              THEN [st EXCEPT !.at = "failed", !.err = ErrCACert]
              ELSE [st EXCEPT !.rest = d.rest,
                              !.pool = AddCert(st.pool, d.block.key)]
         ELSE [st EXCEPT !.rest = d.rest]

\* if cfg.CACertPEM != "" { caCertPool := x509.NewCertPool(); rest := ... }
EnterCALoop ==
    /\ fnOut = Nil
    /\ fnIn.fn = "caLoop"
    /\ fnOut' = IF fnIn.caCertPEM # <<>>
                THEN [at |-> "loop", rest |-> fnIn.caCertPEM, pool |-> <<>>, err |-> Nil]
                ELSE [at |-> "skipped", rest |-> <<>>, pool |-> <<>>, err |-> Nil]
    /\ UNCHANGED <<fnIn, sched>>
    /\ UNCHANGED callVars

CALoopIteration ==
    /\ fnOut # Nil
    /\ fnIn.fn = "caLoop"
    /\ fnOut.at = "loop"
    /\ fnOut' = caLoopStep(fnOut)
    /\ UNCHANGED <<fnIn, sched>>
    /\ UNCHANGED callVars

NextCALoop ==
    \/ EnterCALoop
    \/ CALoopIteration

\* the goroutine that runs ExecuteRequest is never suspended for ever: a
\* step of the block that can be taken is taken
SpecCALoop == InitCALoop /\ [][NextCALoop]_vars /\ WF_vars(NextCALoop)

\* the loop is at its head
InCALoop == fnOut # Nil /\ fnIn.fn = "caLoop" /\ fnOut.at = "loop"

\* the loop was left
CALoopLeft == fnOut # Nil /\ fnIn.fn = "caLoop" /\ fnOut.at # "loop"

\* C29: the CA loop ends for every CA bundle: an iteration stops the loop
\* when no further block decodes, returns the error of a CERTIFICATE block
\* that does not parse whatever was added before, or shortens the rest; a
\* block of another type is skipped and changes nothing but the rest; the
\* outcome is that of the CA step of ExecuteRequest
C29_CALoopTerminates ==
    /\ [][InCALoop =>
            LET d == pemDecode(fnOut.rest) IN
            \/ /\ d.block = Nil
               /\ fnOut' = [fnOut EXCEPT !.at = "done"]
            \/ /\ d.block # Nil /\ d.block.Type = "CERTIFICATE" /\ ~d.block.parses
               /\ fnOut'.at = "failed" /\ fnOut'.err = ErrCACert
            \/ /\ d.block # Nil /\ d.block.Type = "CERTIFICATE" /\ d.block.parses
               /\ fnOut'.at = "loop" /\ fnOut'.err = Nil
               /\ Len(fnOut'.rest) < Len(fnOut.rest)
               /\ fnOut'.pool = AddCert(fnOut.pool, d.block.key)
            \/ /\ d.block # Nil /\ d.block.Type # "CERTIFICATE"
               /\ fnOut'.at = "loop" /\ fnOut'.err = Nil
               /\ Len(fnOut'.rest) < Len(fnOut.rest)
               /\ fnOut'.pool = fnOut.pool]_vars
    /\ [](CALoopLeft /\ fnOut.at # "skipped" =>
            LET r == loadCACerts(fnIn.caCertPEM, <<>>) IN
            /\ (fnOut.at = "failed") = (r.err # Nil)
            /\ fnOut.err = r.err
            /\ fnOut.at = "done" => fnOut.pool = r.pool)
    /\ [](CALoopLeft =>
            (fnOut.at = "failed") =
                (\E i \in DOMAIN pemBlocks(fnIn.caCertPEM) :
                    /\ pemBlocks(fnIn.caCertPEM)[i].Type = "CERTIFICATE"
                    /\ ~pemBlocks(fnIn.caCertPEM)[i].parses))
    /\ <>CALoopLeft

\* the loop failed on the third block after adding a certificate and
\* skipping a private key
C29_Witness ==
    /\ CALoopLeft
    /\ fnOut.at = "failed"
    /\ fnIn.caCertPEM = <<CertBlock("k1"), KeyBlock("k1"), BadCertBlock>>
    /\ fnOut.pool = <<"k1">>
    /\ fnOut.rest = <<BadCertBlock>>

====
